---- MODULE Spec2Model ----
(***************************************************************************)
(* Model of contracts/Nutrition_AI_FHE.sol (contract NutritionAIFHE): the  *)
(* access and lifecycle controller, the batch manager, the homomorphic     *)
(* analysis engine (as symbolic ciphertext handles) and the decryption     *)
(* request / oracle callback state machine.  Every external function of    *)
(* the contract is one action.  The guards of a function f are the         *)
(* operator fError, which names the error the call reverts with (NoError   *)
(* when it goes through).  A reverting call undoes all its effects: it is  *)
(* a stuttering step, which [][Next]_vars admits, so the action of f is    *)
(* enabled exactly when fError is NoError.                                 *)
(***************************************************************************)
EXTENDS Integers, Sequences, FiniteSets, TLC

VARIABLES
    owner,                      \* address public owner
    isProvider,                 \* mapping(address => bool)
    paused,                     \* bool public paused
    lastSubmissionTime,         \* mapping(address => uint256)
    lastDecryptionRequestTime,  \* mapping(address => uint256)
    cooldownSeconds,            \* uint256 public cooldownSeconds
    currentBatchId,             \* uint256 public currentBatchId
    batchOpen,                  \* bool public batchOpen
    batchUserData,              \* mapping(uint256 => mapping(address => UserEncryptedData))
    batchProcessed,             \* mapping(uint256 => bool)
    decryptionContexts,         \* mapping(uint256 => DecryptionContext)
    now,                        \* block.timestamp
    nextRequestId,              \* the oracle's request counter (FHE.requestDecryption)
    completed,                  \* history: results of the DecryptionCompleted events, per requestId
    batchOpenedLog,             \* history: batch ids of the BatchOpened events, in order
    requestedBy,                \* history: msg.sender of the requestAnalysis behind each requestId
    requestedRecord,            \* history: the record that requestAnalysis analysed, per requestId
    txCount                     \* history: number of successful calls

contractState == <<owner, isProvider, paused, lastSubmissionTime,
                   lastDecryptionRequestTime, cooldownSeconds, currentBatchId,
                   batchOpen, batchUserData, batchProcessed, decryptionContexts>>

vars == <<owner, isProvider, paused, lastSubmissionTime,
          lastDecryptionRequestTime, cooldownSeconds, currentBatchId,
          batchOpen, batchUserData, batchProcessed, decryptionContexts,
          now, nextRequestId, completed, batchOpenedLog, requestedBy,
          requestedRecord, txCount>>

(***************************************************************************)
(* Bounds of the model.                                                    *)
(***************************************************************************)
MaxBatchId == 3          \* openBatch is explored while currentBatchId < MaxBatchId
MaxRequests == 2         \* decryption requests the oracle hands out
MaxCalls == 6             \* successful calls explored
MaxTicks == 1            \* block.timestamp advances at most this many steps

Addr == {"deployer", "provider", "relayer"}
Deployer == "deployer"
ThisAddress == "this"
NoAddress == "none"

BatchIds == 0..MaxBatchId
RequestIds == 0..MaxRequests

DefaultCooldown == 60
TimeStep == DefaultCooldown
DeployTime == DefaultCooldown
MaxTime == DeployTime + MaxTicks * TimeStep
\* stands for type(uint256).max: every other number of the model is far below it
MAX_UINT == 2147483647

NoError == "ok"

(***************************************************************************)
(* Encrypted Arithmetic Adapter: ciphertext handles.  A handle is a tuple; *)
(* the zero handle is the empty tuple.  The handle of an operation's       *)
(* result is determined by the operation and its operand handles.          *)
(***************************************************************************)
Uninit == <<>>

isInitialized(h) == h # Uninit

asEuint32(v) == <<"trivial", v>>

inputHandle(v, n) == <<"input", v, n>>

\* an uninitialized operand is taken as the trivial encryption of 0
\* (the operand is bound once, so that a nested handle is built once)
operand(h) ==
    CHOOSE v \in {IF isInitialized(x) THEN x ELSE asEuint32(0) : x \in {h}} : TRUE

fheAdd(a, b) == <<"add", operand(a), operand(b)>>
fheSub(a, b) == <<"sub", operand(a), operand(b)>>
fheMul(a, b) == <<"mul", operand(a), operand(b)>>
fheDiv(a, b) == <<"div", operand(a), operand(b)>>
fheMax(a, b) == <<"max", operand(a), operand(b)>>
fheEq(a, b) == <<"eq", operand(a), operand(b)>>
fheGe(a, b) == <<"ge", operand(a), operand(b)>>
fheSelect(c, a, b) == <<"select", c, operand(a), operand(b)>>

toBytes32(h) == h

EmptyRecord ==
    [dailyCalories |-> Uninit, proteinGrams |-> Uninit, carbGrams |-> Uninit,
     fatGrams |-> Uninit, waterIntakeMl |-> Uninit, activityLevel |-> Uninit,
     healthGoal |-> Uninit, allergyFlags |-> Uninit]

FullRecord(cal, act, goal, n) ==
    [dailyCalories |-> inputHandle(cal, n), proteinGrams |-> inputHandle(80, n),
     carbGrams |-> inputHandle(250, n), fatGrams |-> inputHandle(70, n),
     waterIntakeMl |-> inputHandle(2000, n), activityLevel |-> inputHandle(act, n),
     healthGoal |-> inputHandle(goal, n), allergyFlags |-> inputHandle(0, n)]

\* the records a provider passes to submitUserData in this model
RecordInputs ==
    { FullRecord(2000, 3, 1, 1),
      FullRecord(1000, 5, 2, 2),
      [FullRecord(2000, 3, 1, 1) EXCEPT !.dailyCalories = Uninit] }

\* the cleartext payloads of a callback: six 32-byte words
CleartextInputs == { <<1150, 86, 131, 31, 2500, 27>>, <<0, 0, 0, 0, 0, 0>> }

NoContext == [batchId |-> 0, stateHash |-> <<>>, processed |-> FALSE]

(***************************************************************************)
(* Homomorphic Analysis Engine                                             *)
(***************************************************************************)
\* variant: the score divides by calorieTarget itself
computeAnalysis_NoClamp(batchId, provider) ==
    LET data == batchUserData[batchId][provider]
        BMR == asEuint32(1500)
        ACTIVITY_FACTOR == asEuint32(50)
        activityCalories == fheMul(data.activityLevel, ACTIVITY_FACTOR)
        tdee == fheAdd(BMR, activityCalories)
        adjustment0 == asEuint32(0)
        isGoal1 == fheEq(data.healthGoal, asEuint32(1))
        isGoal2 == fheEq(data.healthGoal, asEuint32(2))
        adjustment1 == fheSelect(isGoal1, fheMul(asEuint32(500), asEuint32(-1)), adjustment0)
        adjustment == fheSelect(isGoal2, asEuint32(500), adjustment1)
        calorieTarget == fheAdd(tdee, adjustment)
        proteinTarget == fheDiv(fheDiv(fheMul(calorieTarget, asEuint32(30)), asEuint32(100)), asEuint32(4))
        fatTarget == fheDiv(fheDiv(fheMul(calorieTarget, asEuint32(25)), asEuint32(100)), asEuint32(9))
        carbTarget == fheDiv(fheSub(fheSub(calorieTarget, fheMul(proteinTarget, asEuint32(4))),
                                    fheMul(fatTarget, asEuint32(9))), asEuint32(4))
        waterTarget == asEuint32(2500)
        diff == fheSub(data.dailyCalories, calorieTarget)
        absDiff == fheSelect(fheGe(diff, asEuint32(0)), diff, fheSub(asEuint32(0), diff))
        score == fheSub(asEuint32(100),
                        fheDiv(fheMul(absDiff, asEuint32(100)), calorieTarget))
    IN  [calorieTarget |-> calorieTarget, proteinTarget |-> proteinTarget,
         carbTarget |-> carbTarget, fatTarget |-> fatTarget,
         waterTarget |-> waterTarget, score |-> score]

\* variant: the record is read from the current batch, not from batchId
computeAnalysis_ReadsCurrentBatch(batchId, provider) ==
    LET data == batchUserData[currentBatchId][provider]
        BMR == asEuint32(1500)
        ACTIVITY_FACTOR == asEuint32(50)
        activityCalories == fheMul(data.activityLevel, ACTIVITY_FACTOR)
        tdee == fheAdd(BMR, activityCalories)
        adjustment0 == asEuint32(0)
        isGoal1 == fheEq(data.healthGoal, asEuint32(1))
        isGoal2 == fheEq(data.healthGoal, asEuint32(2))
        adjustment1 == fheSelect(isGoal1, fheMul(asEuint32(500), asEuint32(-1)), adjustment0)
        adjustment == fheSelect(isGoal2, asEuint32(500), adjustment1)
        calorieTarget == fheAdd(tdee, adjustment)
        proteinTarget == fheDiv(fheDiv(fheMul(calorieTarget, asEuint32(30)), asEuint32(100)), asEuint32(4))
        fatTarget == fheDiv(fheDiv(fheMul(calorieTarget, asEuint32(25)), asEuint32(100)), asEuint32(9))
        carbTarget == fheDiv(fheSub(fheSub(calorieTarget, fheMul(proteinTarget, asEuint32(4))),
                                    fheMul(fatTarget, asEuint32(9))), asEuint32(4))
        waterTarget == asEuint32(2500)
        diff == fheSub(data.dailyCalories, calorieTarget)
        absDiff == fheSelect(fheGe(diff, asEuint32(0)), diff, fheSub(asEuint32(0), diff))
        score == fheSub(asEuint32(100),
                        fheDiv(fheMul(absDiff, asEuint32(100)), fheMax(calorieTarget, asEuint32(1))))
    IN  [calorieTarget |-> calorieTarget, proteinTarget |-> proteinTarget,
         carbTarget |-> carbTarget, fatTarget |-> fatTarget,
         waterTarget |-> waterTarget, score |-> score]

computeAnalysis(batchId, provider) ==
    LET data == batchUserData[batchId][provider]
        BMR == asEuint32(1500)
        ACTIVITY_FACTOR == asEuint32(50)
        activityCalories == fheMul(data.activityLevel, ACTIVITY_FACTOR)
        tdee == fheAdd(BMR, activityCalories)
        adjustment0 == asEuint32(0)
        isGoal1 == fheEq(data.healthGoal, asEuint32(1))
        isGoal2 == fheEq(data.healthGoal, asEuint32(2))
        adjustment1 == fheSelect(isGoal1, fheMul(asEuint32(500), asEuint32(-1)), adjustment0)
        adjustment == fheSelect(isGoal2, asEuint32(500), adjustment1)
        calorieTarget == fheAdd(tdee, adjustment)
        proteinTarget == fheDiv(fheDiv(fheMul(calorieTarget, asEuint32(30)), asEuint32(100)), asEuint32(4))
        fatTarget == fheDiv(fheDiv(fheMul(calorieTarget, asEuint32(25)), asEuint32(100)), asEuint32(9))
        carbTarget == fheDiv(fheSub(fheSub(calorieTarget, fheMul(proteinTarget, asEuint32(4))),
                                    fheMul(fatTarget, asEuint32(9))), asEuint32(4))
        waterTarget == asEuint32(2500)
        diff == fheSub(data.dailyCalories, calorieTarget)
        absDiff == fheSelect(fheGe(diff, asEuint32(0)), diff, fheSub(asEuint32(0), diff))
        score == fheSub(asEuint32(100),
                        fheDiv(fheMul(absDiff, asEuint32(100)), fheMax(calorieTarget, asEuint32(1))))
    IN  [calorieTarget |-> calorieTarget, proteinTarget |-> proteinTarget,
         carbTarget |-> carbTarget, fatTarget |-> fatTarget,
         waterTarget |-> waterTarget, score |-> score]

\* cts[0..5] as built in requestAnalysis and in myCallback
ciphertexts(analysis) ==
    << toBytes32(analysis.calorieTarget), toBytes32(analysis.proteinTarget),
       toBytes32(analysis.carbTarget), toBytes32(analysis.fatTarget),
       toBytes32(analysis.waterTarget), toBytes32(analysis.score) >>

\* keccak256(abi.encode(cts, address(this))), taken as injective
hashCiphertexts(cts) == <<cts, ThisAddress>>

\* the assembly block of myCallback: results[i] is the i-th word of cleartexts
decodeResults(cleartexts) == [i \in 1..6 |-> cleartexts[i]]

(***************************************************************************)
(* Plaintext semantics of the adapter: the value a handle decrypts to.  A  *)
(* euint32 value is a pair <<hi, lo>> of 16-bit limbs, hi * 2^16 + lo, and *)
(* every operation wraps modulo 2^32.                                      *)
(***************************************************************************)
Limb == 65536
HalfLimb == 32768

u32Zero == <<0, 0>>

u32Add(a, b) ==
    LET lo == a[2] + b[2]
        hi == a[1] + b[1] + (lo \div Limb)
    IN  <<hi % Limb, lo % Limb>>

u32Sub(a, b) ==
    LET lo == a[2] - b[2]
        borrow == IF lo < 0 THEN 1 ELSE 0
        hi == a[1] - b[1] - borrow
    IN  <<(hi + Limb) % Limb, (lo + Limb) % Limb>>

\* the uint32 an integer literal of the source stands for; a negative one wraps
toU32(v) ==
    IF v >= 0 THEN <<v \div Limb, v % Limb>>
    ELSE u32Sub(u32Zero, <<(-v) \div Limb, (-v) % Limb>>)

u32Lt(a, b) == a[1] < b[1] \/ (a[1] = b[1] /\ a[2] < b[2])

u32Ge(a, b) == ~u32Lt(a, b)

u32Max(a, b) == IF u32Lt(a, b) THEN b ELSE a

\* a * k modulo 2^32 for a factor k below 2^15
u32MulSmall(a, k) ==
    LET lo == a[2] * k
        hi == a[1] * k + (lo \div Limb)
    IN  <<hi % Limb, lo % Limb>>

\* a * b modulo 2^32, by the four bytes of b
u32Mul(a, b) ==
    LET b3 == b[1] \div 256
        b2 == b[1] % 256
        b1 == b[2] \div 256
        b0 == b[2] % 256
        r3 == u32MulSmall(a, b3)
        r2 == u32Add(u32MulSmall(r3, 256), u32MulSmall(a, b2))
        r1 == u32Add(u32MulSmall(r2, 256), u32MulSmall(a, b1))
    IN  u32Add(u32MulSmall(r1, 256), u32MulSmall(a, b0))

u32Bit(n, i) ==
    IF i >= 16 THEN (n[1] \div (2 ^ (i - 16))) % 2 ELSE (n[2] \div (2 ^ i)) % 2

\* 2 * a + bit modulo 2^32
u32ShiftIn(a, bit) ==
    <<(a[1] % HalfLimb) * 2 + (a[2] \div HalfLimb), (a[2] % HalfLimb) * 2 + bit>>

\* binary long division, from bit i of n downwards; q and r are the quotient
\* and remainder of the bits above i.  A zero divisor gives the all-ones
\* quotient, as the homomorphic division does.  The tests q[2] < 0 and
\* n[1] >= 0, d[1] >= 0 never decide anything: they make the evaluator compute
\* q, n and d before it recurses.
RECURSIVE u32DivStep(_, _, _, _, _)
u32DivStep(n, d, i, q, r) ==
    IF i < 0 \/ q[2] < 0 THEN q
    ELSE LET shifted == u32ShiftIn(r, u32Bit(n, i))
         IN  IF r[1] >= HalfLimb \/ u32Ge(shifted, d)
             THEN u32DivStep(n, d, i - 1, u32ShiftIn(q, 1), u32Sub(shifted, d))
             ELSE u32DivStep(n, d, i - 1, u32ShiftIn(q, 0), shifted)

u32Div(n, d) ==
    IF n[1] >= 0 /\ d[1] >= 0 THEN u32DivStep(n, d, 31, u32Zero, u32Zero) ELSE u32Zero

\* the plaintext of a handle: an euint32 as a limb pair, an ebool as a boolean
RECURSIVE decrypt(_)
decrypt(h) ==
    CASE h[1] = "trivial" -> toU32(h[2])
      [] h[1] = "input" -> toU32(h[2])
      [] h[1] = "add" -> u32Add(decrypt(h[2]), decrypt(h[3]))
      [] h[1] = "sub" -> u32Sub(decrypt(h[2]), decrypt(h[3]))
      [] h[1] = "mul" -> u32Mul(decrypt(h[2]), decrypt(h[3]))
      [] h[1] = "div" -> u32Div(decrypt(h[2]), decrypt(h[3]))
      [] h[1] = "max" -> u32Max(decrypt(h[2]), decrypt(h[3]))
      [] h[1] = "eq" -> decrypt(h[2]) = decrypt(h[3])
      [] h[1] = "ge" -> u32Ge(decrypt(h[2]), decrypt(h[3]))
      [] h[1] = "select" -> IF decrypt(h[2]) THEN decrypt(h[3]) ELSE decrypt(h[4])

(***************************************************************************)
(* Initial state: field initialisers and the constructor                   *)
(***************************************************************************)
\* variant: the constructor does not register the owner as a provider
Init_OwnerNotProvider ==
    /\ owner = Deployer
    /\ isProvider = [a \in Addr |-> FALSE]
    /\ paused = FALSE
    /\ lastSubmissionTime = [a \in Addr |-> 0]
    /\ lastDecryptionRequestTime = [a \in Addr |-> 0]
    /\ cooldownSeconds = DefaultCooldown
    /\ currentBatchId = 1
    /\ batchOpen = FALSE
    /\ batchUserData = [b \in BatchIds |-> [a \in Addr |-> EmptyRecord]]
    /\ batchProcessed = [b \in BatchIds |-> FALSE]
    /\ decryptionContexts = [r \in RequestIds |-> NoContext]
    /\ now = DeployTime
    /\ nextRequestId = 0
    /\ completed = [r \in RequestIds |-> <<>>]
    /\ batchOpenedLog = <<>>
    /\ requestedBy = [r \in RequestIds |-> NoAddress]
    /\ requestedRecord = [r \in RequestIds |-> EmptyRecord]
    /\ txCount = 0

Init ==
    /\ owner = Deployer
    /\ isProvider = [a \in Addr |-> a = Deployer]
    /\ paused = FALSE
    /\ lastSubmissionTime = [a \in Addr |-> 0]
    /\ lastDecryptionRequestTime = [a \in Addr |-> 0]
    /\ cooldownSeconds = DefaultCooldown
    /\ currentBatchId = 1
    /\ batchOpen = FALSE
    /\ batchUserData = [b \in BatchIds |-> [a \in Addr |-> EmptyRecord]]
    /\ batchProcessed = [b \in BatchIds |-> FALSE]
    /\ decryptionContexts = [r \in RequestIds |-> NoContext]
    /\ now = DeployTime
    /\ nextRequestId = 0
    /\ completed = [r \in RequestIds |-> <<>>]
    /\ batchOpenedLog = <<>>
    /\ requestedBy = [r \in RequestIds |-> NoAddress]
    /\ requestedRecord = [r \in RequestIds |-> EmptyRecord]
    /\ txCount = 0

\* a call that goes through is counted against the bound on explored calls
Success ==
    /\ txCount < MaxCalls
    /\ txCount' = txCount + 1
    /\ UNCHANGED now

(***************************************************************************)
(* Modifiers                                                               *)
(***************************************************************************)
onlyOwner(sender) == sender = owner

onlyProvider(sender) == isProvider[sender]

whenNotPaused == ~paused

\* block.timestamp < last + cooldownSeconds, the addition being checked
cooldownCheck(last) ==
    IF last > MAX_UINT - cooldownSeconds THEN "Panic"
    ELSE IF now < last + cooldownSeconds THEN "CooldownActive"
    ELSE NoError

checkSubmissionCooldown(sender) == cooldownCheck(lastSubmissionTime[sender])

checkDecryptionCooldown(sender) == cooldownCheck(lastDecryptionRequestTime[sender])

(***************************************************************************)
(* Access & Lifecycle Controller                                           *)
(***************************************************************************)
transferOwnershipError(sender) ==
    IF ~onlyOwner(sender) THEN "NotOwner"
    ELSE NoError

transferOwnership(sender, newOwner) ==
    /\ transferOwnershipError(sender) = NoError
    /\ owner' = newOwner
    /\ Success
    /\ UNCHANGED <<isProvider, paused, lastSubmissionTime, lastDecryptionRequestTime,
                   cooldownSeconds, currentBatchId, batchOpen, batchUserData,
                   batchProcessed, decryptionContexts, nextRequestId, completed, batchOpenedLog,
                   requestedBy, requestedRecord>>

addProviderError(sender) ==
    IF ~onlyOwner(sender) THEN "NotOwner"
    ELSE NoError

\* the provider set after the body of addProvider run on the set providers
addProviderEffect(providers, provider) ==
    IF ~providers[provider]
    THEN [providers EXCEPT ![provider] = TRUE]
    ELSE providers

\* variant: ProviderAdded is emitted outside the if
addProviderEvents_Unconditional(providers, provider) ==
    << <<"ProviderAdded", provider>> >>

\* the events the body of addProvider emits when run on the set providers
addProviderEvents(providers, provider) ==
    IF ~providers[provider]
    THEN << <<"ProviderAdded", provider>> >>
    ELSE << >>

addProvider(sender, provider) ==
    /\ addProviderError(sender) = NoError
    /\ isProvider' = addProviderEffect(isProvider, provider)
    /\ Success
    /\ UNCHANGED <<owner, paused, lastSubmissionTime, lastDecryptionRequestTime,
                   cooldownSeconds, currentBatchId, batchOpen, batchUserData,
                   batchProcessed, decryptionContexts, nextRequestId, completed, batchOpenedLog,
                   requestedBy, requestedRecord>>

removeProviderError(sender) ==
    IF ~onlyOwner(sender) THEN "NotOwner"
    ELSE NoError

\* the provider set after the body of removeProvider run on the set providers
removeProviderEffect(providers, provider) ==
    IF providers[provider]
    THEN [providers EXCEPT ![provider] = FALSE]
    ELSE providers

\* the events the body of removeProvider emits when run on the set providers
removeProviderEvents(providers, provider) ==
    IF providers[provider]
    THEN << <<"ProviderRemoved", provider>> >>
    ELSE << >>

removeProvider(sender, provider) ==
    /\ removeProviderError(sender) = NoError
    /\ isProvider' = removeProviderEffect(isProvider, provider)
    /\ Success
    /\ UNCHANGED <<owner, paused, lastSubmissionTime, lastDecryptionRequestTime,
                   cooldownSeconds, currentBatchId, batchOpen, batchUserData,
                   batchProcessed, decryptionContexts, nextRequestId, completed, batchOpenedLog,
                   requestedBy, requestedRecord>>

\* variant: the onlyOwner modifier is missing
setPausedError_NoOwnerCheck(sender) == NoError

setPausedError(sender) ==
    IF ~onlyOwner(sender) THEN "NotOwner"
    ELSE NoError

setPaused(sender, newPaused) ==
    /\ setPausedError(sender) = NoError
    /\ paused' = newPaused
    /\ Success
    /\ UNCHANGED <<owner, isProvider, lastSubmissionTime, lastDecryptionRequestTime,
                   cooldownSeconds, currentBatchId, batchOpen, batchUserData,
                   batchProcessed, decryptionContexts, nextRequestId, completed, batchOpenedLog,
                   requestedBy, requestedRecord>>

\* variant: the zero check is missing
setCooldownSecondsError_NoZeroCheck(sender, newCooldown) ==
    IF ~onlyOwner(sender) THEN "NotOwner"
    ELSE NoError

setCooldownSecondsError(sender, newCooldown) ==
    IF ~onlyOwner(sender) THEN "NotOwner"
    ELSE IF newCooldown = 0 THEN "InvalidParameter"
    ELSE NoError

setCooldownSeconds(sender, newCooldown) ==
    /\ setCooldownSecondsError(sender, newCooldown) = NoError
    /\ cooldownSeconds' = newCooldown
    /\ Success
    /\ UNCHANGED <<owner, isProvider, paused, lastSubmissionTime,
                   lastDecryptionRequestTime, currentBatchId, batchOpen, batchUserData,
                   batchProcessed, decryptionContexts, nextRequestId, completed, batchOpenedLog,
                   requestedBy, requestedRecord>>

(***************************************************************************)
(* Batch Manager                                                           *)
(***************************************************************************)
\* variant: the whenNotPaused modifier is missing
openBatchError_NoPauseCheck(sender) ==
    IF ~onlyProvider(sender) THEN "NotProvider"
    ELSE IF batchOpen THEN "InvalidBatch"
    ELSE NoError

\* variant: the check that no batch is open is missing
openBatchError_NoOpenCheck(sender) ==
    IF ~onlyProvider(sender) THEN "NotProvider"
    ELSE IF ~whenNotPaused THEN "Paused"
    ELSE NoError

openBatchError(sender) ==
    IF ~onlyProvider(sender) THEN "NotProvider"
    ELSE IF ~whenNotPaused THEN "Paused"
    ELSE IF batchOpen THEN "InvalidBatch"
    ELSE NoError

\* variant: the new batch starts with the records of the previous one
openBatch_CarriesRecords(sender) ==
    /\ openBatchError(sender) = NoError
    /\ currentBatchId < MaxBatchId
    /\ batchOpen' = TRUE
    /\ currentBatchId' = currentBatchId + 1
    /\ batchUserData' =
           [batchUserData EXCEPT ![currentBatchId + 1] = batchUserData[currentBatchId]]
    /\ batchOpenedLog' = Append(batchOpenedLog, currentBatchId')
    /\ Success
    /\ UNCHANGED <<owner, isProvider, paused, lastSubmissionTime,
                   lastDecryptionRequestTime, cooldownSeconds,
                   batchProcessed, decryptionContexts, nextRequestId, completed, requestedBy, requestedRecord>>

\* variant: reopening keeps the batch id
openBatch_ReusesId(sender) ==
    /\ openBatchError(sender) = NoError
    /\ currentBatchId < MaxBatchId
    /\ batchOpen' = TRUE
    /\ currentBatchId' = IF currentBatchId = 1 THEN 2 ELSE currentBatchId
    /\ batchOpenedLog' = Append(batchOpenedLog, currentBatchId')
    /\ Success
    /\ UNCHANGED <<owner, isProvider, paused, lastSubmissionTime,
                   lastDecryptionRequestTime, cooldownSeconds, batchUserData,
                   batchProcessed, decryptionContexts, nextRequestId, completed, requestedBy, requestedRecord>>

\* variant: openBatch does not advance currentBatchId
openBatch_NoIncrement(sender) ==
    /\ openBatchError(sender) = NoError
    /\ currentBatchId < MaxBatchId
    /\ batchOpen' = TRUE
    /\ currentBatchId' = currentBatchId
    /\ batchOpenedLog' = Append(batchOpenedLog, currentBatchId')
    /\ Success
    /\ UNCHANGED <<owner, isProvider, paused, lastSubmissionTime,
                   lastDecryptionRequestTime, cooldownSeconds, batchUserData,
                   batchProcessed, decryptionContexts, nextRequestId, completed,
                   requestedBy, requestedRecord>>

openBatch(sender) ==
    /\ openBatchError(sender) = NoError
    /\ currentBatchId < MaxBatchId
    /\ batchOpen' = TRUE
    /\ currentBatchId' = currentBatchId + 1
    /\ batchOpenedLog' = Append(batchOpenedLog, currentBatchId')
    /\ Success
    /\ UNCHANGED <<owner, isProvider, paused, lastSubmissionTime,
                   lastDecryptionRequestTime, cooldownSeconds, batchUserData,
                   batchProcessed, decryptionContexts, nextRequestId, completed, requestedBy, requestedRecord>>

\* variant: the onlyProvider modifier is missing
closeBatchError_NoProviderCheck(sender) ==
    IF ~whenNotPaused THEN "Paused"
    ELSE IF ~batchOpen THEN "InvalidBatch"
    ELSE NoError

closeBatchError(sender) ==
    IF ~onlyProvider(sender) THEN "NotProvider"
    ELSE IF ~whenNotPaused THEN "Paused"
    ELSE IF ~batchOpen THEN "InvalidBatch"
    ELSE NoError

closeBatch(sender) ==
    /\ closeBatchError(sender) = NoError
    /\ batchOpen' = FALSE
    /\ Success
    /\ UNCHANGED <<owner, isProvider, paused, lastSubmissionTime,
                   lastDecryptionRequestTime, cooldownSeconds, currentBatchId,
                   batchUserData, batchProcessed, decryptionContexts,
                   nextRequestId, completed, batchOpenedLog,
                   requestedBy, requestedRecord>>

\* variant: the check that the batch is open is missing
submitUserDataError_NoOpenCheck(sender) ==
    IF ~onlyProvider(sender) THEN "NotProvider"
    ELSE IF ~whenNotPaused THEN "Paused"
    ELSE IF checkSubmissionCooldown(sender) # NoError THEN checkSubmissionCooldown(sender)
    ELSE NoError

submitUserDataError(sender) ==
    IF ~onlyProvider(sender) THEN "NotProvider"
    ELSE IF ~whenNotPaused THEN "Paused"
    ELSE IF checkSubmissionCooldown(sender) # NoError THEN checkSubmissionCooldown(sender)
    ELSE IF ~batchOpen THEN "InvalidBatch"
    ELSE NoError

\* variant: one timestamp track shared by submissions and decryption requests
submitUserData_SharedTrack(sender, data) ==
    /\ submitUserDataError(sender) = NoError
    /\ lastSubmissionTime' = [lastSubmissionTime EXCEPT ![sender] = now]
    /\ lastDecryptionRequestTime' = [lastDecryptionRequestTime EXCEPT ![sender] = now]
    /\ batchUserData' = [batchUserData EXCEPT ![currentBatchId][sender] = data]
    /\ Success
    /\ UNCHANGED <<owner, isProvider, paused,
                   cooldownSeconds, currentBatchId, batchOpen, batchProcessed,
                   decryptionContexts, nextRequestId, completed, batchOpenedLog,
                   requestedBy, requestedRecord>>

\* variant: an uninitialized field of the submission keeps the stored field
submitUserData_Merges(sender, data) ==
    /\ submitUserDataError(sender) = NoError
    /\ lastSubmissionTime' = [lastSubmissionTime EXCEPT ![sender] = now]
    /\ batchUserData' =
           [batchUserData EXCEPT ![currentBatchId][sender] =
               [f \in DOMAIN data |-> IF isInitialized(data[f]) THEN data[f] ELSE @[f]]]
    /\ Success
    /\ UNCHANGED <<owner, isProvider, paused, lastDecryptionRequestTime,
                   cooldownSeconds, currentBatchId, batchOpen, batchProcessed,
                   decryptionContexts, nextRequestId, completed, batchOpenedLog,
                   requestedBy, requestedRecord>>

\* variant: the timestamp is written before the open-batch check and kept
\* when that check fails
submitUserData_WritesBeforeCheck(sender, data) ==
    /\ submitUserDataError(sender) \in {NoError, "InvalidBatch"}
    /\ lastSubmissionTime' = [lastSubmissionTime EXCEPT ![sender] = now]
    /\ batchUserData' = IF batchOpen
                        THEN [batchUserData EXCEPT ![currentBatchId][sender] = data]
                        ELSE batchUserData
    /\ Success
    /\ UNCHANGED <<owner, isProvider, paused, lastDecryptionRequestTime,
                   cooldownSeconds, currentBatchId, batchOpen, batchProcessed,
                   decryptionContexts, nextRequestId, completed, batchOpenedLog,
                   requestedBy, requestedRecord>>

\* variant: the record is stored under the owner's key instead of msg.sender's
submitUserData_StoresUnderOwner(sender, data) ==
    /\ submitUserDataError(sender) = NoError
    /\ lastSubmissionTime' = [lastSubmissionTime EXCEPT ![sender] = now]
    /\ batchUserData' = [batchUserData EXCEPT ![currentBatchId][owner] = data]
    /\ Success
    /\ UNCHANGED <<owner, isProvider, paused, lastDecryptionRequestTime,
                   cooldownSeconds, currentBatchId, batchOpen, batchProcessed,
                   decryptionContexts, nextRequestId, completed, batchOpenedLog,
                   requestedBy, requestedRecord>>

\* the events emitted by the body of submitUserData
submitUserDataEvents(sender) == << <<"DataSubmitted", sender, currentBatchId>> >>

submitUserData(sender, data) ==
    /\ submitUserDataError(sender) = NoError
    /\ lastSubmissionTime' = [lastSubmissionTime EXCEPT ![sender] = now]
    /\ batchUserData' = [batchUserData EXCEPT ![currentBatchId][sender] = data]
    /\ Success
    /\ UNCHANGED <<owner, isProvider, paused, lastDecryptionRequestTime,
                   cooldownSeconds, currentBatchId, batchOpen, batchProcessed,
                   decryptionContexts, nextRequestId, completed, batchOpenedLog,
                   requestedBy, requestedRecord>>

(***************************************************************************)
(* Decryption Request / Oracle Verification State Machine                  *)
(***************************************************************************)
\* variant: the processed-batch check is missing
requestAnalysisError_NoProcessedCheck(sender, batchId) ==
    IF ~onlyProvider(sender) THEN "NotProvider"
    ELSE IF ~whenNotPaused THEN "Paused"
    ELSE IF checkDecryptionCooldown(sender) # NoError THEN checkDecryptionCooldown(sender)
    ELSE IF ~isInitialized(batchUserData[batchId][sender].dailyCalories) THEN "InvalidBatch"
    ELSE NoError

\* variant: existence is tested on activityLevel instead of dailyCalories
requestAnalysisError_WrongSentinel(sender, batchId) ==
    IF ~onlyProvider(sender) THEN "NotProvider"
    ELSE IF ~whenNotPaused THEN "Paused"
    ELSE IF checkDecryptionCooldown(sender) # NoError THEN checkDecryptionCooldown(sender)
    ELSE IF batchProcessed[batchId] THEN "AlreadyProcessed"
    ELSE IF ~isInitialized(batchUserData[batchId][sender].activityLevel) THEN "InvalidBatch"
    ELSE NoError

requestAnalysisError(sender, batchId) ==
    IF ~onlyProvider(sender) THEN "NotProvider"
    ELSE IF ~whenNotPaused THEN "Paused"
    ELSE IF checkDecryptionCooldown(sender) # NoError THEN checkDecryptionCooldown(sender)
    ELSE IF batchProcessed[batchId] THEN "AlreadyProcessed"
    ELSE IF ~isInitialized(batchUserData[batchId][sender].dailyCalories) THEN "InvalidBatch"
    ELSE NoError

\* variant: the batch is marked processed when the request is made
requestAnalysis_MarksProcessed(sender, batchId) ==
    /\ requestAnalysisError(sender, batchId) = NoError
    /\ LET analysis == computeAnalysis(batchId, sender)
           cts == ciphertexts(analysis)
           stateHash == hashCiphertexts(cts)
           requestId == nextRequestId
       IN  /\ nextRequestId < MaxRequests
           /\ lastDecryptionRequestTime' =
                  [lastDecryptionRequestTime EXCEPT ![sender] = now]
           /\ nextRequestId' = nextRequestId + 1
           /\ requestedBy' = [requestedBy EXCEPT ![requestId] = sender]
           /\ requestedRecord' =
                  [requestedRecord EXCEPT ![requestId] = batchUserData[batchId][sender]]
           /\ decryptionContexts' =
                  [decryptionContexts EXCEPT ![requestId] =
                      [batchId |-> batchId, stateHash |-> stateHash, processed |-> FALSE]]
           /\ Success
           /\ batchProcessed' = [batchProcessed EXCEPT ![batchId] = TRUE]
           /\ UNCHANGED <<owner, isProvider, paused, lastSubmissionTime, cooldownSeconds,
                          currentBatchId, batchOpen, batchUserData, completed, batchOpenedLog>>

\* variant: the oracle hands out the same request id for every request
requestAnalysis_ReusesRequestId(sender, batchId) ==
    /\ requestAnalysisError(sender, batchId) = NoError
    /\ LET analysis == computeAnalysis(batchId, sender)
           cts == ciphertexts(analysis)
           stateHash == hashCiphertexts(cts)
           requestId == 0
       IN  /\ nextRequestId < MaxRequests
           /\ lastDecryptionRequestTime' =
                  [lastDecryptionRequestTime EXCEPT ![sender] = now]
           /\ nextRequestId' = nextRequestId + 1
           /\ requestedBy' = [requestedBy EXCEPT ![requestId] = sender]
           /\ requestedRecord' =
                  [requestedRecord EXCEPT ![requestId] = batchUserData[batchId][sender]]
           /\ decryptionContexts' =
                  [decryptionContexts EXCEPT ![requestId] =
                      [batchId |-> batchId, stateHash |-> stateHash, processed |-> FALSE]]
           /\ Success
           /\ UNCHANGED <<owner, isProvider, paused, lastSubmissionTime, cooldownSeconds,
                          currentBatchId, batchOpen, batchUserData, batchProcessed,
                          completed, batchOpenedLog>>

requestAnalysis(sender, batchId) ==
    /\ requestAnalysisError(sender, batchId) = NoError
    /\ LET analysis == computeAnalysis(batchId, sender)
           cts == ciphertexts(analysis)
           stateHash == hashCiphertexts(cts)
           requestId == nextRequestId
       IN  /\ nextRequestId < MaxRequests
           /\ lastDecryptionRequestTime' =
                  [lastDecryptionRequestTime EXCEPT ![sender] = now]
           /\ nextRequestId' = nextRequestId + 1
           /\ requestedBy' = [requestedBy EXCEPT ![requestId] = sender]
           /\ requestedRecord' =
                  [requestedRecord EXCEPT ![requestId] = batchUserData[batchId][sender]]
           /\ decryptionContexts' =
                  [decryptionContexts EXCEPT ![requestId] =
                      [batchId |-> batchId, stateHash |-> stateHash, processed |-> FALSE]]
           /\ Success
           /\ UNCHANGED <<owner, isProvider, paused, lastSubmissionTime, cooldownSeconds,
                          currentBatchId, batchOpen, batchUserData, batchProcessed,
                          completed, batchOpenedLog>>

\* variant: the hash is recomputed from the record of the requesting provider
currentHash_OfRequester(sender, requestId) ==
    hashCiphertexts(ciphertexts(
        computeAnalysis(decryptionContexts[requestId].batchId, requestedBy[requestId])))

\* the hash myCallback recomputes from the record of (ctx.batchId, msg.sender)
currentHash(sender, requestId) ==
    hashCiphertexts(ciphertexts(
        computeAnalysis(decryptionContexts[requestId].batchId, sender)))

\* variant: the replay guard is missing
myCallbackError_NoReplayGuard(sender, requestId, proofOk) ==
    LET ctx == decryptionContexts[requestId]
    IN  IF ctx.batchId = 0 THEN "InvalidBatch"
        ELSE IF currentHash(sender, requestId) # ctx.stateHash THEN "StateMismatch"
        ELSE IF ~proofOk THEN "InvalidProof"
        ELSE NoError

\* variant: the replay guard comes after the state verification
myCallbackError_ReplayAfterStateCheck(sender, requestId, proofOk) ==
    LET ctx == decryptionContexts[requestId]
    IN  IF ctx.batchId = 0 THEN "InvalidBatch"
        ELSE IF currentHash(sender, requestId) # ctx.stateHash THEN "StateMismatch"
        ELSE IF ctx.processed THEN "ReplayAttempt"
        ELSE IF ~proofOk THEN "InvalidProof"
        ELSE NoError

\* variant: the existence guard is missing
myCallbackError_NoExistenceGuard(sender, requestId, proofOk) ==
    LET ctx == decryptionContexts[requestId]
    IN  IF ctx.processed THEN "ReplayAttempt"
        ELSE IF currentHash(sender, requestId) # ctx.stateHash THEN "StateMismatch"
        ELSE IF ~proofOk THEN "InvalidProof"
        ELSE NoError

\* variant: the state verification is missing
myCallbackError_NoStateCheck(sender, requestId, proofOk) ==
    LET ctx == decryptionContexts[requestId]
    IN  IF ctx.processed THEN "ReplayAttempt"
        ELSE IF ctx.batchId = 0 THEN "InvalidBatch"
        ELSE IF ~proofOk THEN "InvalidProof"
        ELSE NoError

\* variant: the proof verification is missing
myCallbackError_NoProofCheck(sender, requestId, proofOk) ==
    LET ctx == decryptionContexts[requestId]
    IN  IF ctx.processed THEN "ReplayAttempt"
        ELSE IF ctx.batchId = 0 THEN "InvalidBatch"
        ELSE IF currentHash(sender, requestId) # ctx.stateHash THEN "StateMismatch"
        ELSE NoError

\* variant: the callback is gated by the pause flag
myCallbackError_WhenNotPaused(sender, requestId, proofOk) ==
    LET ctx == decryptionContexts[requestId]
    IN  IF ~whenNotPaused THEN "Paused"
        ELSE IF ctx.processed THEN "ReplayAttempt"
        ELSE IF ctx.batchId = 0 THEN "InvalidBatch"
        ELSE IF currentHash(sender, requestId) # ctx.stateHash THEN "StateMismatch"
        ELSE IF ~proofOk THEN "InvalidProof"
        ELSE NoError

\* variant: the proof is verified before the state
myCallbackError_ProofBeforeState(sender, requestId, proofOk) ==
    LET ctx == decryptionContexts[requestId]
    IN  IF ctx.processed THEN "ReplayAttempt"
        ELSE IF ctx.batchId = 0 THEN "InvalidBatch"
        ELSE IF ~proofOk THEN "InvalidProof"
        ELSE IF currentHash(sender, requestId) # ctx.stateHash THEN "StateMismatch"
        ELSE NoError

\* variant: the callback refuses a request whose batch is already processed
myCallbackError_ChecksBatchProcessed(sender, requestId, proofOk) ==
    LET ctx == decryptionContexts[requestId]
    IN  IF ctx.processed THEN "ReplayAttempt"
        ELSE IF ctx.batchId = 0 THEN "InvalidBatch"
        ELSE IF batchProcessed[ctx.batchId] THEN "AlreadyProcessed"
        ELSE IF currentHash(sender, requestId) # ctx.stateHash THEN "StateMismatch"
        ELSE IF ~proofOk THEN "InvalidProof"
        ELSE NoError

\* proofOk is the outcome of FHE.checkSignatures(requestId, cleartexts, proof)
myCallbackError(sender, requestId, proofOk) ==
    LET ctx == decryptionContexts[requestId]
    IN  IF ctx.processed THEN "ReplayAttempt"
        ELSE IF ctx.batchId = 0 THEN "InvalidBatch"
        ELSE IF currentHash(sender, requestId) # ctx.stateHash THEN "StateMismatch"
        ELSE IF ~proofOk THEN "InvalidProof"
        ELSE NoError

\* variant: the finalized context is deleted instead of being kept as processed
myCallback_DeletesContext(sender, requestId, cleartexts, proofOk) ==
    LET ctx == decryptionContexts[requestId]
        results == decodeResults(cleartexts)
    IN  /\ myCallbackError(sender, requestId, proofOk) = NoError
        /\ decryptionContexts' =
               [decryptionContexts EXCEPT ![requestId] = NoContext]
        /\ batchProcessed' = [batchProcessed EXCEPT ![ctx.batchId] = TRUE]
        /\ completed' = [completed EXCEPT ![requestId] = Append(@, results)]
        /\ Success
        /\ UNCHANGED <<owner, isProvider, paused, lastSubmissionTime,
                       lastDecryptionRequestTime, cooldownSeconds, currentBatchId,
                       batchOpen, batchUserData, nextRequestId, batchOpenedLog,
                   requestedBy, requestedRecord>>

\* variant: the callback finalizes the request without marking its batch
myCallback_LeavesBatchUnmarked(sender, requestId, cleartexts, proofOk) ==
    LET ctx == decryptionContexts[requestId]
        results == decodeResults(cleartexts)
    IN  /\ myCallbackError(sender, requestId, proofOk) = NoError
        /\ decryptionContexts' =
               [decryptionContexts EXCEPT ![requestId] = [ctx EXCEPT !.processed = TRUE]]
        /\ completed' = [completed EXCEPT ![requestId] = Append(@, results)]
        /\ Success
        /\ UNCHANGED <<owner, isProvider, paused, lastSubmissionTime,
                       lastDecryptionRequestTime, cooldownSeconds, currentBatchId,
                       batchOpen, batchUserData, batchProcessed, nextRequestId,
                       batchOpenedLog, requestedBy, requestedRecord>>

myCallback(sender, requestId, cleartexts, proofOk) ==
    LET ctx == decryptionContexts[requestId]
        results == decodeResults(cleartexts)
    IN  /\ myCallbackError(sender, requestId, proofOk) = NoError
        /\ decryptionContexts' =
               [decryptionContexts EXCEPT ![requestId] = [ctx EXCEPT !.processed = TRUE]]
        /\ batchProcessed' = [batchProcessed EXCEPT ![ctx.batchId] = TRUE]
        /\ completed' = [completed EXCEPT ![requestId] = Append(@, results)]
        /\ Success
        /\ UNCHANGED <<owner, isProvider, paused, lastSubmissionTime,
                       lastDecryptionRequestTime, cooldownSeconds, currentBatchId,
                       batchOpen, batchUserData, nextRequestId, batchOpenedLog,
                   requestedBy, requestedRecord>>

(***************************************************************************)
(* Environment: time passes between calls                                  *)
(***************************************************************************)
Tick ==
    /\ now < MaxTime
    /\ now' = now + TimeStep
    /\ UNCHANGED <<contractState, nextRequestId, completed, txCount, batchOpenedLog,
                   requestedBy, requestedRecord>>

CooldownInputs == {0, 2 * DefaultCooldown, MAX_UINT}

Next ==
    \/ \E a \in Addr, n \in Addr : transferOwnership(a, n)
    \/ \E a \in Addr, p \in Addr : addProvider(a, p)
    \/ \E a \in Addr, p \in Addr : removeProvider(a, p)
    \/ \E a \in Addr, b \in BOOLEAN : setPaused(a, b)
    \/ \E a \in Addr, c \in CooldownInputs : setCooldownSeconds(a, c)
    \/ \E a \in Addr : openBatch(a)
    \/ \E a \in Addr : closeBatch(a)
    \/ \E a \in Addr, d \in RecordInputs : submitUserData(a, d)
    \/ \E a \in Addr, b \in BatchIds : requestAnalysis(a, b)
    \/ \E a \in Addr, r \in RequestIds, ok \in BOOLEAN :
            \* the guards of myCallback do not read the payload
            /\ myCallbackError(a, r, ok) = NoError
            /\ \E c \in CleartextInputs : myCallback(a, r, c, ok)
    \/ Tick

Spec == Init /\ [][Next]_vars

(***************************************************************************)
(* The analysis engine on its own: the deployer has opened the first batch *)
(* and submitted one record, drawn from a grid of plaintext inputs; the    *)
(* record is then analysed by requestAnalysis and finalized by myCallback. *)
(***************************************************************************)
DailyInputs == {0, 1000, 2000, 3000, -1}
\* 2147483618 * 50 = -1500 and 2147483628 * 50 = -1000 modulo 2^32
ActivityInputs == {1, 2, 3, 4, 5, 2147483618, 2147483628}
GoalInputs == {1, 2, 3}

AnalysisRecords ==
    { FullRecord(cal, act, goal, 1) :
        cal \in DailyInputs, act \in ActivityInputs, goal \in GoalInputs }

InitAnalysis ==
    /\ owner = Deployer
    /\ isProvider = [a \in Addr |-> a = Deployer]
    /\ paused = FALSE
    /\ lastSubmissionTime = [a \in Addr |-> IF a = Deployer THEN DeployTime ELSE 0]
    /\ lastDecryptionRequestTime = [a \in Addr |-> 0]
    /\ cooldownSeconds = DefaultCooldown
    /\ currentBatchId = 2
    /\ batchOpen = TRUE
    /\ \E d \in AnalysisRecords :
          batchUserData = [b \in BatchIds |-> [a \in Addr |->
                              IF b = 2 /\ a = Deployer THEN d ELSE EmptyRecord]]
    /\ batchProcessed = [b \in BatchIds |-> FALSE]
    /\ decryptionContexts = [r \in RequestIds |-> NoContext]
    /\ now = DeployTime
    /\ nextRequestId = 0
    /\ completed = [r \in RequestIds |-> <<>>]
    /\ batchOpenedLog = <<2>>
    /\ requestedBy = [r \in RequestIds |-> NoAddress]
    /\ requestedRecord = [r \in RequestIds |-> EmptyRecord]
    /\ txCount = 2

NextAnalysis ==
    \/ \E b \in BatchIds : requestAnalysis(Deployer, b)
    \/ \E r \in RequestIds, c \in CleartextInputs, ok \in BOOLEAN :
            myCallback(Deployer, r, c, ok)
    \/ Tick

SpecAnalysis == InitAnalysis /\ [][NextAnalysis]_vars

(***************************************************************************)
(* The callback's caller: the owner has registered "provider", the         *)
(* deployer has opened the first batch and submitted one record.  The      *)
(* handles a provider passes are arbitrary 32-byte values, the handle of   *)
(* the trivial encryption of 0 among them.  Providers then submit and      *)
(* request, and any address calls back.                                    *)
(***************************************************************************)
\* a record whose dailyCalories is the handle FHE.asEuint32(0) returns
ZeroRecord == [EmptyRecord EXCEPT !.dailyCalories = asEuint32(0)]

CallerRecords == {FullRecord(2000, 3, 1, 1), FullRecord(1000, 5, 2, 2), ZeroRecord}

InitCaller ==
    /\ owner = Deployer
    /\ isProvider = [a \in Addr |-> a \in {Deployer, "provider"}]
    /\ paused = FALSE
    /\ lastSubmissionTime = [a \in Addr |-> IF a = Deployer THEN DeployTime ELSE 0]
    /\ lastDecryptionRequestTime = [a \in Addr |-> 0]
    /\ cooldownSeconds = DefaultCooldown
    /\ currentBatchId = 2
    /\ batchOpen = TRUE
    /\ \E d \in CallerRecords :
          batchUserData = [b \in BatchIds |-> [a \in Addr |->
                              IF b = 2 /\ a = Deployer THEN d ELSE EmptyRecord]]
    /\ batchProcessed = [b \in BatchIds |-> FALSE]
    /\ decryptionContexts = [r \in RequestIds |-> NoContext]
    /\ now = DeployTime
    /\ nextRequestId = 0
    /\ completed = [r \in RequestIds |-> <<>>]
    /\ batchOpenedLog = <<2>>
    /\ requestedBy = [r \in RequestIds |-> NoAddress]
    /\ requestedRecord = [r \in RequestIds |-> EmptyRecord]
    /\ txCount = 3

NextCaller ==
    \/ \E a \in Addr, d \in CallerRecords : submitUserData(a, d)
    \/ \E a \in Addr, b \in BatchIds : requestAnalysis(a, b)
    \/ \E a \in Addr, r \in RequestIds, c \in CleartextInputs, ok \in BOOLEAN :
            myCallback(a, r, c, ok)
    \/ Tick

SpecCaller == InitCaller /\ [][NextCaller]_vars

(***************************************************************************)
(* The contract with a fair, well-behaved oracle: for every pending        *)
(* request the oracle delivers the callback, invoked as the requesting     *)
(* provider and with a valid proof, and a provider with a pending request  *)
(* on the current batch does not resubmit to it.  Each pending request     *)
(* keeps one of the explored calls in reserve for its callback.            *)
(***************************************************************************)
\* the requests that are pending: requested by the oracle's counter, not processed
pendingRequests ==
    {r \in RequestIds : r < nextRequestId /\ ~decryptionContexts[r].processed}

CallReserved == txCount' + Cardinality(pendingRequests') <= MaxCalls

\* sender has a pending request on the batch submissions go to
resubmits(sender) ==
    \E r \in pendingRequests :
        requestedBy[r] = sender /\ decryptionContexts[r].batchId = currentBatchId

OracleCallback(r) ==
    \E c \in CleartextInputs : myCallback(requestedBy[r], r, c, TRUE)

NextLive ==
    \/ \E a \in Addr, p \in Addr : removeProvider(a, p) /\ CallReserved
    \/ \E a \in Addr, b \in BOOLEAN : setPaused(a, b) /\ CallReserved
    \/ \E a \in Addr, c \in CooldownInputs : setCooldownSeconds(a, c) /\ CallReserved
    \/ \E a \in Addr : openBatch(a) /\ CallReserved
    \/ \E a \in Addr : closeBatch(a) /\ CallReserved
    \/ \E a \in Addr, d \in RecordInputs :
            ~resubmits(a) /\ submitUserData(a, d) /\ CallReserved
    \/ \E a \in Addr, b \in BatchIds : requestAnalysis(a, b) /\ CallReserved
    \/ \E a \in Addr, r \in RequestIds, c \in CleartextInputs, ok \in BOOLEAN :
            myCallback(a, r, c, ok)
    \/ Tick

SpecLive ==
    /\ Init
    /\ [][NextLive]_vars
    /\ \A r \in RequestIds : WF_vars(OracleCallback(r))

TypeOK ==
    /\ owner \in Addr
    /\ isProvider \in [Addr -> BOOLEAN]
    /\ paused \in BOOLEAN
    /\ currentBatchId \in 1..MaxBatchId
    /\ batchOpen \in BOOLEAN
    /\ batchProcessed \in [BatchIds -> BOOLEAN]
    /\ now \in DeployTime..MaxTime
    /\ nextRequestId \in 0..MaxRequests
    /\ txCount \in 0..MaxCalls

(***************************************************************************)
(* Request phases of section 4.4                                           *)
(***************************************************************************)
\* requestAnalysis has stored a context under r
Requested(r) == r < nextRequestId

Finalized(r) == decryptionContexts[r].processed

Pending(r) == Requested(r) /\ ~Finalized(r)

\* a step that changes the contract state or emits DecryptionCompleted
StateChanged ==
    \/ contractState' # contractState
    \/ completed' # completed

(***************************************************************************)
(* C1  Exactly-once finalization: for every request id the number of       *)
(* DecryptionCompleted events carrying it never exceeds 1, and it is 1     *)
(* exactly when the context is processed, so processed flips from false    *)
(* to true at most once and never back.                                    *)
(***************************************************************************)
C1_ExactlyOnceFinalization ==
    \A r \in RequestIds :
        /\ Len(completed[r]) <= 1
        /\ decryptionContexts[r].processed <=> Len(completed[r]) = 1

\* a request has been finalized and further calls were made afterwards
C1_Witness ==
    \E r \in RequestIds :
        /\ decryptionContexts[r].processed
        /\ Len(completed[r]) = 1
        /\ txCount = MaxCalls

(***************************************************************************)
(* C2  Replay guard: a callback for a request id whose context is already  *)
(* processed fails with ReplayAttempt for every caller, cleartext and      *)
(* proof outcome, and no step that changes the contract state or emits     *)
(* DecryptionCompleted is such a call.                                     *)
(***************************************************************************)
C2_ReplayGuard ==
    /\ [](\A a \in Addr, r \in RequestIds, ok \in BOOLEAN :
            decryptionContexts[r].processed
                => myCallbackError(a, r, ok) = "ReplayAttempt")
    /\ [][StateChanged =>
            \A a \in Addr, r \in RequestIds, c \in CleartextInputs, ok \in BOOLEAN :
                decryptionContexts[r].processed => ~myCallback(a, r, c, ok)]_vars

\* a processed context exists, and a caller whose recomputed hash differs from it
C2_Witness ==
    \E a \in Addr, r \in RequestIds :
        /\ decryptionContexts[r].processed
        /\ currentHash(a, r) # decryptionContexts[r].stateHash

(***************************************************************************)
(* C3  Existence guard: a callback for a request id under which            *)
(* requestAnalysis never stored a context finds batchId = 0 and fails      *)
(* with InvalidBatch for every caller, cleartext and proof outcome, and    *)
(* no step that changes the state is such a call.                          *)
(***************************************************************************)
C3_ExistenceGuard ==
    /\ [](\A a \in Addr, r \in RequestIds, ok \in BOOLEAN :
            ~Requested(r)
                => /\ decryptionContexts[r].batchId = 0
                   /\ myCallbackError(a, r, ok) = "InvalidBatch")
    /\ [][StateChanged =>
            \A a \in Addr, r \in RequestIds, c \in CleartextInputs, ok \in BOOLEAN :
                ~Requested(r) => ~myCallback(a, r, c, ok)]_vars

\* some contexts exist, with records stored, and some request id is still unknown
C3_Witness ==
    /\ nextRequestId > 0
    /\ \E r \in RequestIds : ~Requested(r) /\ decryptionContexts[r] = NoContext

(***************************************************************************)
(* C4  Request lifecycle: every request id moves only Unrequested ->       *)
(* Pending -> Finalized.  A requested id stays requested, a finalized      *)
(* context never changes again, a pending context changes only by a        *)
(* myCallback for that id that sets processed, and an unrequested id       *)
(* changes only by a requestAnalysis that stores a pending context.        *)
(***************************************************************************)
C4_RequestLifecycle ==
    [][\A r \in RequestIds :
        LET ctx == decryptionContexts[r]
            ctxNext == decryptionContexts'[r]
            requested == r < nextRequestId
            requestedNext == r < nextRequestId'
        IN  /\ requested => requestedNext
            /\ ctx.processed => ctxNext = ctx
            /\ (requested /\ ~ctx.processed /\ ctxNext # ctx)
                  => /\ ctxNext = [ctx EXCEPT !.processed = TRUE]
                     /\ \E a \in Addr, c \in CleartextInputs : myCallback(a, r, c, TRUE)
            /\ (~requested /\ (requestedNext \/ ctxNext # ctx))
                  => /\ requestedNext
                     /\ ~ctxNext.processed
                     /\ ctxNext.batchId # 0
                     /\ \E a \in Addr, b \in BatchIds : requestAnalysis(a, b)]_vars

\* one request went through all three phases while another id is still unrequested
C4_Witness ==
    \E r, q \in RequestIds :
        /\ Requested(r) /\ Finalized(r)
        /\ ~Requested(q)

(***************************************************************************)
(* C5  Hash binding: a callback on a pending request whose recomputed hash *)
(* differs from the stored stateHash fails with StateMismatch, and every   *)
(* step in which myCallback finalizes a request (emitting                  *)
(* DecryptionCompleted for it) is made by a caller whose six recomputed    *)
(* handles hash to exactly the stored stateHash.                           *)
(***************************************************************************)
C5_HashBinding ==
    /\ [](\A r \in RequestIds, a \in Addr :
            (Pending(r) /\ currentHash(a, r) # decryptionContexts[r].stateHash)
                => \A ok \in BOOLEAN : myCallbackError(a, r, ok) = "StateMismatch")
    /\ [][\A r \in RequestIds :
            completed'[r] # completed[r]
                => \A a \in Addr, c \in CleartextInputs, ok \in BOOLEAN :
                      myCallback(a, r, c, ok)
                          => currentHash(a, r) = decryptionContexts[r].stateHash]_vars

\* a request was finalized after the batch counter had advanced past its batch,
\* and some other caller's recomputed hash differs from the stored one
C5_Witness ==
    \E a \in Addr, r \in RequestIds :
        /\ Finalized(r)
        /\ decryptionContexts[r].batchId < currentBatchId
        /\ currentHash(a, r) # decryptionContexts[r].stateHash

(***************************************************************************)
(* C6  Proof verification: a callback on a pending request that passes the *)
(* state check but whose proof check fails is rejected with InvalidProof,  *)
(* and no step that changes a context or emits DecryptionCompleted is a    *)
(* callback with a failing proof.                                          *)
(***************************************************************************)
C6_ProofVerification ==
    /\ [](\A a \in Addr, r \in RequestIds :
            (Pending(r) /\ currentHash(a, r) = decryptionContexts[r].stateHash)
                => myCallbackError(a, r, FALSE) = "InvalidProof")
    /\ [][\A r \in RequestIds :
            (completed'[r] # completed[r] \/ decryptionContexts'[r] # decryptionContexts[r])
                => \A a \in Addr, c \in CleartextInputs : ~myCallback(a, r, c, FALSE)]_vars

\* a pending request with a caller that passes the state check
C6_Witness ==
    \E a \in Addr, r \in RequestIds :
        /\ Pending(r)
        /\ currentHash(a, r) = decryptionContexts[r].stateHash
        /\ myCallbackError(a, r, TRUE) = NoError

(***************************************************************************)
(* C7  batchProcessed[b] is true only if some request whose context has    *)
(* batchId = b has been finalized, and once true it stays true.            *)
(***************************************************************************)
C7_BatchProcessed ==
    /\ [](\A b \in BatchIds :
            batchProcessed[b]
                => \E r \in RequestIds :
                      /\ decryptionContexts[r].batchId = b
                      /\ decryptionContexts[r].processed)
    /\ [][\A b \in BatchIds : batchProcessed[b] => batchProcessed'[b]]_vars

\* a batch is marked processed and a later batch has been opened since
C7_Witness ==
    \E b \in BatchIds :
        /\ batchProcessed[b]
        /\ b < currentBatchId

(***************************************************************************)
(* C8  requestAnalysis(b) by a provider, unpaused and with the decryption  *)
(* cooldown satisfied, fails with AlreadyProcessed whenever                *)
(* batchProcessed[b]; no step that creates a context, advances the oracle  *)
(* counter or resets a decryption cooldown is such a call.                 *)
(***************************************************************************)
C8_AlreadyProcessed ==
    /\ [](\A a \in Addr, b \in BatchIds :
            (isProvider[a] /\ ~paused /\ checkDecryptionCooldown(a) = NoError
                /\ batchProcessed[b])
                => requestAnalysisError(a, b) = "AlreadyProcessed")
    /\ [][(\/ decryptionContexts' # decryptionContexts
           \/ nextRequestId' # nextRequestId
           \/ lastDecryptionRequestTime' # lastDecryptionRequestTime)
            => \A a \in Addr, b \in BatchIds :
                  batchProcessed[b] => ~requestAnalysis(a, b)]_vars

\* a processed batch and a provider holding a record in it who may request again
C8_Witness ==
    \E a \in Addr, b \in BatchIds :
        /\ batchProcessed[b]
        /\ isProvider[a] /\ ~paused /\ checkDecryptionCooldown(a) = NoError
        /\ isInitialized(batchUserData[b][a].dailyCalories)
        /\ nextRequestId < MaxRequests

(***************************************************************************)
(* C9  requestAnalysis(b) on an unprocessed batch, by a provider whose     *)
(* earlier guards pass, fails with InvalidBatch whenever dailyCalories of  *)
(* the record under (b, caller) is uninitialized; every step that creates  *)
(* a decryption context is a request by a caller holding a record in that  *)
(* batch.                                                                  *)
(***************************************************************************)
C9_NoRecord ==
    /\ [](\A a \in Addr, b \in BatchIds :
            (isProvider[a] /\ ~paused /\ checkDecryptionCooldown(a) = NoError
                /\ ~batchProcessed[b]
                /\ ~isInitialized(batchUserData[b][a].dailyCalories))
                => requestAnalysisError(a, b) = "InvalidBatch")
    /\ [][decryptionContexts' # decryptionContexts
            => \A a \in Addr, b \in BatchIds :
                  requestAnalysis(a, b)
                      => isInitialized(batchUserData[b][a].dailyCalories)]_vars

\* a provider without dailyCalories in a batch where another provider holds a
\* record, the provider's own record having other fields initialized
C9_Witness ==
    \E a, o \in Addr, b \in BatchIds :
        /\ isProvider[a] /\ ~paused /\ checkDecryptionCooldown(a) = NoError
        /\ ~batchProcessed[b]
        /\ ~isInitialized(batchUserData[b][a].dailyCalories)
        /\ isInitialized(batchUserData[b][a].activityLevel)
        /\ o # a
        /\ isInitialized(batchUserData[b][o].dailyCalories)

(***************************************************************************)
(* C10 (as stated)  While paused, no step changes anything but the         *)
(* owner's administrative state: openBatch, closeBatch, submitUserData,    *)
(* requestAnalysis and myCallback are all blocked.                         *)
(***************************************************************************)
C10_PauseBlocksAll ==
    [][paused => UNCHANGED <<lastSubmissionTime, lastDecryptionRequestTime,
                             currentBatchId, batchOpen, batchUserData,
                             batchProcessed, decryptionContexts,
                             nextRequestId, completed>>]_vars

(***************************************************************************)
(* C10 (amended)  While paused, openBatch, closeBatch, submitUserData and  *)
(* requestAnalysis revert for every caller (with Paused when the caller is *)
(* a provider), and no step changes the batch state, the records, the      *)
(* cooldown timestamps or the oracle counter; a context changes while      *)
(* paused only by myCallback finalizing it, which the pause does not gate. *)
(***************************************************************************)
PausedError(e, a) == e = (IF isProvider[a] THEN "Paused" ELSE "NotProvider")

C10_PauseGate ==
    /\ [](paused =>
            \A a \in Addr :
                /\ PausedError(openBatchError(a), a)
                /\ PausedError(closeBatchError(a), a)
                /\ PausedError(submitUserDataError(a), a)
                /\ \A b \in BatchIds : PausedError(requestAnalysisError(a, b), a))
    /\ [][paused =>
            /\ UNCHANGED <<lastSubmissionTime, lastDecryptionRequestTime,
                            currentBatchId, batchOpen, batchUserData, nextRequestId>>
            /\ \A r \in RequestIds :
                  decryptionContexts'[r] # decryptionContexts[r]
                      => \E a \in Addr, c \in CleartextInputs : myCallback(a, r, c, TRUE)]_vars

\* paused with a batch open, a provider blocked, and a request finalized
C10_Witness ==
    /\ paused
    /\ \E a \in Addr : isProvider[a] /\ closeBatchError(a) = "Paused"
    /\ \E r \in RequestIds : Finalized(r)

(***************************************************************************)
(* C11  Owner-only administration: owner is always exactly one address;    *)
(* transferOwnership, addProvider, removeProvider, setPaused and           *)
(* setCooldownSeconds fail with NotOwner for every other caller and go     *)
(* through for the owner; the owner, the provider set, the pause flag and  *)
(* the cooldown change only in a step that is the matching call by the     *)
(* current owner; after a transfer to a different address the previous     *)
(* owner's calls fail with NotOwner and the new owner's go through.        *)
(***************************************************************************)
AdminErrors(a) ==
    {transferOwnershipError(a), addProviderError(a), removeProviderError(a),
     setPausedError(a)}
        \cup {setCooldownSecondsError(a, c) : c \in CooldownInputs}

AdminErrorsOfOwner(a) ==
    {transferOwnershipError(a), addProviderError(a), removeProviderError(a),
     setPausedError(a)}
        \cup {setCooldownSecondsError(a, c) : c \in CooldownInputs \ {0}}

C11_OwnerOnly ==
    /\ [](/\ owner \in Addr
          /\ \A a \in Addr :
                IF a = owner THEN AdminErrorsOfOwner(a) = {NoError}
                ELSE AdminErrors(a) = {"NotOwner"})
    /\ [][/\ owner' # owner
             => \E n \in Addr : transferOwnership(owner, n)
          /\ isProvider' # isProvider
             => \E p \in Addr : addProvider(owner, p) \/ removeProvider(owner, p)
          /\ paused' # paused
             => \E b \in BOOLEAN : setPaused(owner, b)
          /\ cooldownSeconds' # cooldownSeconds
             => \E c \in CooldownInputs : setCooldownSeconds(owner, c)
          /\ \A old \in Addr :
                (old = owner /\ owner' # old)
                    => /\ (AdminErrors(old) = {"NotOwner"})'
                       /\ (AdminErrorsOfOwner(owner) = {NoError})']_vars

\* ownership has moved away from the deployer, who is now refused, and the
\* pause flag and the cooldown have been changed by the owner of the time
C11_Witness ==
    /\ owner # Deployer
    /\ setPausedError(Deployer) = "NotOwner"
    /\ setPausedError(owner) = NoError
    /\ paused
    /\ cooldownSeconds # DefaultCooldown

(***************************************************************************)
(* C12  Provider-only operations: openBatch, closeBatch, submitUserData    *)
(* and requestAnalysis fail with NotProvider for every caller that is not  *)
(* in the provider set at the time of the call, whether removed from it or *)
(* the current owner, and no step that changes the batch state, a record,  *)
(* a cooldown timestamp or the oracle counter is such a call.              *)
(***************************************************************************)
C12_ProviderOnly ==
    /\ [](\A a \in Addr :
            ~isProvider[a]
                => /\ openBatchError(a) = "NotProvider"
                   /\ closeBatchError(a) = "NotProvider"
                   /\ submitUserDataError(a) = "NotProvider"
                   /\ \A b \in BatchIds : requestAnalysisError(a, b) = "NotProvider")
    /\ [][<<currentBatchId, batchOpen, batchUserData, lastSubmissionTime,
            lastDecryptionRequestTime, nextRequestId>>' #
          <<currentBatchId, batchOpen, batchUserData, lastSubmissionTime,
            lastDecryptionRequestTime, nextRequestId>>
            => \A a \in Addr :
                  ~isProvider[a]
                      => /\ ~openBatch(a)
                         /\ ~closeBatch(a)
                         /\ \A d \in RecordInputs : ~submitUserData(a, d)
                         /\ \A b \in BatchIds : ~requestAnalysis(a, b)]_vars

\* a batch is open and unpaused; the owner is not a provider, and another
\* address that submitted a record into the batch has been removed
C12_Witness ==
    /\ batchOpen /\ ~paused
    /\ ~isProvider[owner]
    /\ \E a \in Addr :
          /\ a # owner
          /\ ~isProvider[a]
          /\ isInitialized(batchUserData[currentBatchId][a].dailyCalories)
          /\ closeBatchError(a) = "NotProvider"

(***************************************************************************)
(* C13  cooldownSeconds is 60 initially and strictly positive in every     *)
(* reachable state: setCooldownSeconds(0) by the owner fails with          *)
(* InvalidParameter, and cooldownSeconds changes only in a step that is a  *)
(* setCooldownSeconds by the owner with a nonzero argument, to that        *)
(* argument.                                                               *)
(***************************************************************************)
C13_CooldownPositive ==
    /\ cooldownSeconds = DefaultCooldown
    /\ [](/\ cooldownSeconds > 0
          /\ setCooldownSecondsError(owner, 0) = "InvalidParameter")
    /\ [][cooldownSeconds' # cooldownSeconds
            => \E c \in CooldownInputs \ {0} :
                  /\ setCooldownSeconds(owner, c)
                  /\ cooldownSeconds' = c]_vars

\* the cooldown has been changed by the owner and further calls were made
C13_Witness ==
    /\ cooldownSeconds \in CooldownInputs \ {0, DefaultCooldown}
    /\ setCooldownSecondsError(owner, 0) = "InvalidParameter"
    /\ txCount = MaxCalls

(***************************************************************************)
(* C14  addProvider and removeProvider are idempotent.  By the owner,      *)
(* addProvider(p) with p already a provider and removeProvider(p) with p   *)
(* not a provider raise no error, emit no event and the step leaves the    *)
(* whole contract state unchanged; a second application of the same call   *)
(* right after the first leaves the provider set of the first and adds     *)
(* nothing to the events of the first.                                     *)
(***************************************************************************)
C14_ProviderIdempotent ==
    /\ [](\A p \in Addr :
            /\ addProviderError(owner) = NoError
            /\ removeProviderError(owner) = NoError
            /\ isProvider[p]
                  => /\ addProviderEvents(isProvider, p) = << >>
                     /\ addProviderEffect(isProvider, p) = isProvider
            /\ ~isProvider[p]
                  => /\ removeProviderEvents(isProvider, p) = << >>
                     /\ removeProviderEffect(isProvider, p) = isProvider
            /\ addProviderEffect(addProviderEffect(isProvider, p), p)
                  = addProviderEffect(isProvider, p)
            /\ addProviderEvents(isProvider, p)
                  \o addProviderEvents(addProviderEffect(isProvider, p), p)
                  = addProviderEvents(isProvider, p)
            /\ removeProviderEffect(removeProviderEffect(isProvider, p), p)
                  = removeProviderEffect(isProvider, p)
            /\ removeProviderEvents(isProvider, p)
                  \o removeProviderEvents(removeProviderEffect(isProvider, p), p)
                  = removeProviderEvents(isProvider, p))
    /\ [][\A a, p \in Addr :
            /\ addProvider(a, p)
                  => /\ isProvider[p] => UNCHANGED <<contractState, nextRequestId, completed>>
                     /\ isProvider'[p]
                     /\ (addProviderEvents(isProvider, p) = << >>)'
            /\ removeProvider(a, p)
                  => /\ ~isProvider[p] => UNCHANGED <<contractState, nextRequestId, completed>>
                     /\ ~isProvider'[p]
                     /\ (removeProviderEvents(isProvider, p) = << >>)']_vars

\* a second provider has been added and a third address never was one, so
\* both the repeated addProvider and the removeProvider of a non-provider apply
C14_Witness ==
    \E p, q \in Addr :
        /\ p # Deployer /\ isProvider[p] /\ isProvider[Deployer]
        /\ addProviderEvents(isProvider, p) = << >>
        /\ ~isProvider[q]
        /\ removeProviderEvents(isProvider, q) = << >>
        /\ txCount >= 2

(***************************************************************************)
(* C15 (as stated)  Cooldown threshold: for a provider on an unpaused      *)
(* system, submitUserData (requestAnalysis) passes its cooldown check iff  *)
(* now >= lastSubmissionTime[a] (lastDecryptionRequestTime[a]) +           *)
(* cooldownSeconds, written now - last >= cooldownSeconds, the timestamps  *)
(* never lying in the future; when it does not, the call fails with        *)
(* CooldownActive; a timestamp is refreshed only by a call that passes     *)
(* the check, to now.                                                      *)
(***************************************************************************)
C15_CooldownThreshold ==
    /\ [](\A a \in Addr :
            /\ lastSubmissionTime[a] <= now
            /\ lastDecryptionRequestTime[a] <= now
            /\ (isProvider[a] /\ ~paused)
                  => /\ checkSubmissionCooldown(a) = NoError
                        <=> now - lastSubmissionTime[a] >= cooldownSeconds
                     /\ now - lastSubmissionTime[a] < cooldownSeconds
                        => submitUserDataError(a) = "CooldownActive"
                     /\ checkDecryptionCooldown(a) = NoError
                        <=> now - lastDecryptionRequestTime[a] >= cooldownSeconds
                     /\ now - lastDecryptionRequestTime[a] < cooldownSeconds
                        => \A b \in BatchIds :
                              requestAnalysisError(a, b) = "CooldownActive")
    /\ [][\A a \in Addr :
            /\ lastSubmissionTime'[a] # lastSubmissionTime[a]
                  => /\ now - lastSubmissionTime[a] >= cooldownSeconds
                     /\ lastSubmissionTime'[a] = now
            /\ lastDecryptionRequestTime'[a] # lastDecryptionRequestTime[a]
                  => /\ now - lastDecryptionRequestTime[a] >= cooldownSeconds
                     /\ lastDecryptionRequestTime'[a] = now]_vars

\* last + cooldownSeconds exceeds the largest uint256
Overflows(last) == last > MAX_UINT - cooldownSeconds

(***************************************************************************)
(* C15 (where the sum is representable)  The same threshold, for the       *)
(* actors whose timestamp plus cooldownSeconds does not overflow; where it *)
(* does, the call fails with an arithmetic panic instead of                *)
(* CooldownActive.                                                         *)
(***************************************************************************)
C15_CooldownThresholdNoOverflow ==
    [](\A a \in Addr :
        (isProvider[a] /\ ~paused)
            => /\ IF Overflows(lastSubmissionTime[a])
                  THEN submitUserDataError(a) = "Panic"
                  ELSE /\ checkSubmissionCooldown(a) = NoError
                          <=> now >= lastSubmissionTime[a] + cooldownSeconds
                       /\ now < lastSubmissionTime[a] + cooldownSeconds
                          => submitUserDataError(a) = "CooldownActive"
                       /\ (now = lastSubmissionTime[a] + cooldownSeconds /\ batchOpen)
                          => submitUserDataError(a) = NoError
               /\ IF Overflows(lastDecryptionRequestTime[a])
                  THEN \A b \in BatchIds : requestAnalysisError(a, b) = "Panic"
                  ELSE /\ checkDecryptionCooldown(a) = NoError
                          <=> now >= lastDecryptionRequestTime[a] + cooldownSeconds
                       /\ now < lastDecryptionRequestTime[a] + cooldownSeconds
                          => \A b \in BatchIds :
                                requestAnalysisError(a, b) = "CooldownActive")

\* a provider acted, and exactly cooldownSeconds later acts again
C15_Witness ==
    \E a \in Addr :
        /\ isProvider[a] /\ ~paused /\ batchOpen
        /\ lastSubmissionTime[a] > 0
        /\ now = lastSubmissionTime[a] + DefaultCooldown
        /\ cooldownSeconds = DefaultCooldown
        /\ submitUserDataError(a) = NoError

(***************************************************************************)
(* C16  The two cooldown tracks are independent and per actor: a step      *)
(* changes lastSubmissionTime only as a submitUserData, and then only the  *)
(* caller's entry (to now), leaving lastDecryptionRequestTime alone; a     *)
(* step changes lastDecryptionRequestTime only as a requestAnalysis, and   *)
(* then only the caller's entry, leaving lastSubmissionTime alone.  So     *)
(* the outcome of either cooldown check of an actor is not changed by a    *)
(* submission or request of another actor, nor by the actor's own action   *)
(* on the other track.                                                     *)
(***************************************************************************)
C16_IndependentTracks ==
    [][/\ \A a \in Addr, d \in RecordInputs :
            submitUserData(a, d)
                => /\ lastSubmissionTime' = [lastSubmissionTime EXCEPT ![a] = now]
                   /\ lastDecryptionRequestTime' = lastDecryptionRequestTime
                   /\ \A o \in Addr :
                         /\ (checkDecryptionCooldown(o))' = checkDecryptionCooldown(o)
                         /\ o # a => (checkSubmissionCooldown(o))' = checkSubmissionCooldown(o)
       /\ nextRequestId' # nextRequestId
            => \A a \in Addr, b \in BatchIds :
                requestAnalysis(a, b)
                    => /\ lastDecryptionRequestTime' =
                              [lastDecryptionRequestTime EXCEPT ![a] = now]
                       /\ lastSubmissionTime' = lastSubmissionTime
                       /\ \A o \in Addr :
                             /\ (checkSubmissionCooldown(o))' = checkSubmissionCooldown(o)
                             /\ o # a => (checkDecryptionCooldown(o))'
                                             = checkDecryptionCooldown(o)
       /\ lastSubmissionTime' # lastSubmissionTime
            => \E a \in Addr, d \in RecordInputs : submitUserData(a, d)
       /\ lastDecryptionRequestTime' # lastDecryptionRequestTime
            => \E a \in Addr, b \in BatchIds : requestAnalysis(a, b)]_vars

\* a provider has just submitted and may request analysis at the same time,
\* while another provider who has just requested may still submit
C16_Witness ==
    \E a, o \in Addr :
        /\ a # o
        /\ lastSubmissionTime[a] = now
        /\ lastDecryptionRequestTime[a] < now
        /\ requestAnalysisError(a, currentBatchId) = NoError
        /\ lastDecryptionRequestTime[o] = now
        /\ submitUserDataError(o) = NoError

(***************************************************************************)
(* C17  Batch state machine: the batch starts closed; batchOpen changes    *)
(* from false to true only by openBatch and from true to false only by     *)
(* closeBatch; while a batch is open openBatch fails for every caller,     *)
(* with InvalidBatch when the caller is a provider and the system is not   *)
(* paused, and likewise closeBatch while the batch is closed; no step      *)
(* that changes batchOpen or currentBatchId is such a call.                *)
(***************************************************************************)
C17_BatchStateMachine ==
    /\ batchOpen = FALSE
    /\ [](\A a \in Addr :
            /\ batchOpen
                  => /\ openBatchError(a) # NoError
                     /\ (isProvider[a] /\ ~paused) => openBatchError(a) = "InvalidBatch"
            /\ ~batchOpen
                  => /\ closeBatchError(a) # NoError
                     /\ (isProvider[a] /\ ~paused) => closeBatchError(a) = "InvalidBatch")
    /\ [][/\ (~batchOpen /\ batchOpen')
                => /\ \E a \in Addr : openBatch(a)
                   /\ \A a \in Addr : ~closeBatch(a)
          /\ (batchOpen /\ ~batchOpen')
                => /\ \E a \in Addr : closeBatch(a)
                   /\ \A a \in Addr : ~openBatch(a)
          /\ (batchOpen /\ batchOpen') => currentBatchId' = currentBatchId
          /\ (~batchOpen /\ ~batchOpen') => currentBatchId' = currentBatchId]_vars

\* a batch was opened, closed and a second one opened, and a provider's
\* further openBatch is refused
C17_Witness ==
    /\ batchOpen
    /\ currentBatchId = 3
    /\ \E a \in Addr : openBatchError(a) = "InvalidBatch"

(***************************************************************************)
(* C18  Batch ids are monotonic and never reused: currentBatchId starts at *)
(* 1, never decreases, increases by exactly 1 in every openBatch step and  *)
(* changes in no other step (closeBatch included); the BatchOpened events  *)
(* carry strictly increasing ids, the first being 2 and the last the       *)
(* current id.                                                             *)
(***************************************************************************)
C18_BatchIdsMonotonic ==
    /\ currentBatchId = 1
    /\ [](/\ currentBatchId >= 1
          /\ \A i, j \in 1..Len(batchOpenedLog) :
                i < j => batchOpenedLog[i] < batchOpenedLog[j]
          /\ batchOpenedLog # << >>
                => /\ batchOpenedLog[1] = 2
                   /\ batchOpenedLog[Len(batchOpenedLog)] = currentBatchId)
    /\ [][/\ currentBatchId' >= currentBatchId
          /\ \A a \in Addr :
                /\ openBatch(a) => currentBatchId' = currentBatchId + 1
                /\ closeBatch(a) => currentBatchId' = currentBatchId
          /\ currentBatchId' # currentBatchId => \E a \in Addr : openBatch(a)]_vars

\* two batches have been opened and closed
C18_Witness ==
    /\ Len(batchOpenedLog) = 2
    /\ ~batchOpen
    /\ currentBatchId = 3

(***************************************************************************)
(* C19  submitUserData by a provider, unpaused and with the submission     *)
(* cooldown satisfied, fails with InvalidBatch whenever batchOpen is       *)
(* false, before the first openBatch as well as after closeBatch while     *)
(* the closed batch's id is still current; no step taken while the batch   *)
(* is closed writes a record or a submission timestamp.                    *)
(***************************************************************************)
C19_ClosedBatchRejects ==
    /\ [](\A a \in Addr :
            (isProvider[a] /\ ~paused /\ checkSubmissionCooldown(a) = NoError
                /\ ~batchOpen)
                => submitUserDataError(a) = "InvalidBatch")
    /\ [][~batchOpen
            => /\ batchUserData' = batchUserData
               /\ lastSubmissionTime' = lastSubmissionTime
               /\ \A a \in Addr, d \in RecordInputs : ~submitUserData(a, d)]_vars

\* a provider submitted into the current batch, the batch was closed, and
\* after the cooldown the provider's next submission is refused
C19_Witness ==
    \E a \in Addr :
        /\ ~batchOpen
        /\ currentBatchId >= 2
        /\ isInitialized(batchUserData[currentBatchId][a].dailyCalories)
        /\ isProvider[a] /\ ~paused /\ checkSubmissionCooldown(a) = NoError
        /\ submitUserDataError(a) = "InvalidBatch"

(***************************************************************************)
(* C20  Batch isolation on reopen: no record is stored under an id above   *)
(* the current one, so a batch holds no record for any provider when it is *)
(* opened; the record under (b, a) changes only in a submitUserData step   *)
(* by a while b is the current, open batch, so records under earlier ids   *)
(* stay as they are; requestAnalysis on the current batch by an eligible   *)
(* provider holding no record in it fails with InvalidBatch, whatever the  *)
(* provider stored in earlier batches.                                     *)
(***************************************************************************)
C20_BatchIsolation ==
    /\ [](/\ \A b \in BatchIds, a \in Addr :
                b > currentBatchId => batchUserData[b][a] = EmptyRecord
          /\ \A a \in Addr :
                (isProvider[a] /\ ~paused /\ checkDecryptionCooldown(a) = NoError
                    /\ ~batchProcessed[currentBatchId]
                    /\ batchUserData[currentBatchId][a] = EmptyRecord)
                    => requestAnalysisError(a, currentBatchId) = "InvalidBatch")
    /\ [][/\ \A a \in Addr :
                openBatch(a)
                    => \A o \in Addr : batchUserData'[currentBatchId'][o] = EmptyRecord
          /\ batchUserData' # batchUserData
                => \A b \in BatchIds, a \in Addr :
                      batchUserData'[b][a] # batchUserData[b][a]
                          => /\ b = currentBatchId
                             /\ batchOpen
                             /\ \E d \in RecordInputs :
                                   /\ submitUserData(a, d)
                                   /\ batchUserData'[b][a] = d]_vars

\* the second batch is open; a provider holding a record in the first one
\* only is refused analysis of the second, into which another provider
\* has submitted
C20_Witness ==
    \E a, o \in Addr :
        /\ batchOpen /\ currentBatchId = 3
        /\ isInitialized(batchUserData[2][a].dailyCalories)
        /\ batchUserData[3][a] = EmptyRecord
        /\ requestAnalysisError(a, 3) = "InvalidBatch"
        /\ requestAnalysisError(a, 2) = NoError
        /\ o # a
        /\ isInitialized(batchUserData[3][o].dailyCalories)

(***************************************************************************)
(* C21  A successful submitUserData stores exactly the eight submitted     *)
(* fields under (currentBatchId, caller), replacing the caller's prior     *)
(* record in the batch without merging, sets lastSubmissionTime[caller]    *)
(* to now, emits DataSubmitted(caller, currentBatchId) for the id the      *)
(* record is stored under, and leaves every other record unchanged.        *)
(***************************************************************************)
C21_SubmitStores ==
    [][\A a \in Addr, d \in RecordInputs :
        submitUserData(a, d)
            => /\ batchUserData'[currentBatchId][a] = d
               /\ \A f \in DOMAIN d : batchUserData'[currentBatchId'][a][f] = d[f]
               /\ \A b \in BatchIds, o \in Addr :
                     (b # currentBatchId \/ o # a)
                         => batchUserData'[b][o] = batchUserData[b][o]
               /\ lastSubmissionTime'[a] = now
               /\ submitUserDataEvents(a) = << <<"DataSubmitted", a, currentBatchId'>> >>]_vars

\* a provider requested analysis of its record in the current batch and has
\* since replaced that record by a different one
C21_Witness ==
    \E a \in Addr, r \in RequestIds :
        /\ requestedBy[r] = a
        /\ decryptionContexts[r].batchId = currentBatchId
        /\ currentHash(a, r) # decryptionContexts[r].stateHash
        /\ lastSubmissionTime[a] = now
        /\ lastDecryptionRequestTime[a] < now
        /\ batchUserData[currentBatchId][a] \in RecordInputs

(***************************************************************************)
(* Plaintext inputs and outputs of a decryption request                    *)
(***************************************************************************)
\* the record the request r was computed from, while it is not resubmitted
requestRecord(r) == batchUserData[decryptionContexts[r].batchId][requestedBy[r]]

\* the six handles sent to the oracle for request r
requestHandles(r) == decryptionContexts[r].stateHash[1]

\* the plaintext integer behind an input handle
plainInput(h) == h[2]

\* the formula of section 4.3 on plaintext integers
specCalorieTarget(act, goal) ==
    1500 + 50 * act + (IF goal = 1 THEN -500 ELSE IF goal = 2 THEN 500 ELSE 0)

specAbs(x) == IF x >= 0 THEN x ELSE -x

specMax(x, y) == IF x >= y THEN x ELSE y

specAnalysis(daily, act, goal) ==
    LET c == specCalorieTarget(act, goal)
        protein == ((c * 30) \div 100) \div 4
        fat == ((c * 25) \div 100) \div 9
        carb == (c - 4 * protein - 9 * fat) \div 4
        score == 100 - ((specAbs(daily - c) * 100) \div specMax(c, 1))
    IN  <<c, protein, carb, fat, 2500, score>>

decryptAll(cts) == [i \in 1..6 |-> decrypt(cts[i])]

InRoundTripRange(data) ==
    /\ plainInput(data.activityLevel) \in 1..5
    /\ plainInput(data.healthGoal) \in 1..3
    /\ plainInput(data.dailyCalories) \in 0..3000

(***************************************************************************)
(* C22 (as stated)  Analysis round trip: for every analysed record with    *)
(* activityLevel in 1..5, healthGoal in 1..3 and dailyCalories in 0..3000, *)
(* the six handles sent to the oracle decrypt to the formula of section    *)
(* 4.3 computed on the plaintext integers (taken modulo 2^32); the record  *)
(* 2000 / 3 / 1 gives 1150, 86, 131, 31, 2500, 27.                         *)
(***************************************************************************)
C22_AnalysisRoundTrip ==
    \A r \in RequestIds :
        (Requested(r) /\ InRoundTripRange(requestRecord(r)))
            => LET data == requestRecord(r)
                   expected == specAnalysis(plainInput(data.dailyCalories),
                                            plainInput(data.activityLevel),
                                            plainInput(data.healthGoal))
               IN  /\ decryptAll(requestHandles(r)) = [i \in 1..6 |-> toU32(expected[i])]
                   /\ (data = FullRecord(2000, 3, 1, 1))
                        => expected = <<1150, 86, 131, 31, 2500, 27>>

(***************************************************************************)
(* C22 (where dailyCalories is not below the target)  The same round trip  *)
(* for the analysed records whose dailyCalories is at least the calorie    *)
(* target.                                                                 *)
(***************************************************************************)
C22_RoundTripAtOrAboveTarget ==
    \A r \in RequestIds :
        (Requested(r) /\ InRoundTripRange(requestRecord(r)))
            => LET data == requestRecord(r)
                   daily == plainInput(data.dailyCalories)
                   act == plainInput(data.activityLevel)
                   goal == plainInput(data.healthGoal)
               IN  daily >= specCalorieTarget(act, goal)
                      => decryptAll(requestHandles(r))
                            = [i \in 1..6 |-> toU32(specAnalysis(daily, act, goal)[i])]

\* the record of the example has been analysed and decrypts to the example's values
C22_Witness ==
    \E r \in RequestIds :
        /\ Requested(r)
        /\ requestRecord(r) = FullRecord(2000, 3, 1, 1)
        /\ decryptAll(requestHandles(r))
              = [i \in 1..6 |-> toU32(<<1150, 86, 131, 31, 2500, 27>>[i])]

\* the absDiff operand and the divisor inside the score handle
\* score = 100 - (absDiff * 100) / max(calorieTarget, 1)
scoreAbsDiff(score) == score[3][2][2]

scoreDivisor(score) == score[3][3]

u32AbsDiff(x, y) == IF u32Ge(x, y) THEN u32Sub(x, y) ELSE u32Sub(y, x)

(***************************************************************************)
(* C23 (as stated)  For every analysed record, those with dailyCalories    *)
(* below calorieTarget included, absDiff decrypts to                       *)
(* |dailyCalories - calorieTarget| and score to                            *)
(* 100 - (absDiff * 100 / max(calorieTarget, 1)), in arithmetic modulo     *)
(* 2^32.                                                                   *)
(***************************************************************************)
C23_AbsDiff ==
    \A r \in RequestIds :
        Requested(r)
            => LET cts == requestHandles(r)
                   c == decrypt(cts[1])
                   daily == decrypt(requestRecord(r).dailyCalories)
                   expected == u32AbsDiff(daily, c)
               IN  /\ decrypt(scoreAbsDiff(cts[6])) = expected
                   /\ decrypt(cts[6]) =
                         u32Sub(toU32(100),
                                u32Div(u32Mul(expected, toU32(100)), u32Max(c, toU32(1))))

(***************************************************************************)
(* C23 (as computed)  For every analysed record absDiff decrypts to        *)
(* dailyCalories - calorieTarget modulo 2^32, the select always taking     *)
(* diff, which is |dailyCalories - calorieTarget| exactly when             *)
(* dailyCalories is not below calorieTarget.                               *)
(***************************************************************************)
C23_AbsDiffWraps ==
    \A r \in RequestIds :
        Requested(r)
            => LET cts == requestHandles(r)
                   c == decrypt(cts[1])
                   daily == decrypt(requestRecord(r).dailyCalories)
                   absDiff == decrypt(scoreAbsDiff(cts[6]))
               IN  /\ absDiff = u32Sub(daily, c)
                   /\ absDiff = u32AbsDiff(daily, c) <=> u32Ge(daily, c)

\* an analysed record whose dailyCalories is below its calorie target
C23_Witness ==
    \E r \in RequestIds :
        /\ Requested(r)
        /\ u32Lt(decrypt(requestRecord(r).dailyCalories), decrypt(requestHandles(r)[1]))
        /\ decrypt(scoreAbsDiff(requestHandles(r)[6])) # u32Zero

\* the divisor handles of all the divisions inside a handle
RECURSIVE divisors(_)
divisors(h) ==
    CASE h[1] \in {"trivial", "input"} -> {}
      [] h[1] = "div" -> {h[3]} \cup divisors(h[2]) \cup divisors(h[3])
      [] h[1] = "select" -> divisors(h[2]) \cup divisors(h[3]) \cup divisors(h[4])
      [] OTHER -> divisors(h[2]) \cup divisors(h[3])

(***************************************************************************)
(* C24  No division by zero in the analysis: in the six handles of every   *)
(* analysed record, calorieTarget wrapping to 0 included, every divisor    *)
(* is either the score's max(calorieTarget, 1), which decrypts to the      *)
(* larger of calorieTarget and 1 and so to at least 1, or one of the       *)
(* constants 100, 4 and 9.                                                 *)
(***************************************************************************)
C24_NoDivisionByZero ==
    \A r \in RequestIds :
        Requested(r)
            => LET cts == requestHandles(r)
                   c == decrypt(cts[1])
               IN  \A i \in 1..6 :
                      \A dv \in divisors(cts[i]) :
                          /\ decrypt(dv) # u32Zero
                          /\ \/ dv \in {asEuint32(100), asEuint32(4), asEuint32(9)}
                             \/ /\ i = 6
                                /\ dv = scoreDivisor(cts[6])
                                /\ decrypt(dv) = u32Max(c, toU32(1))
                                /\ u32Ge(decrypt(dv), toU32(1))

\* an analysed record whose calorieTarget wraps to 0
C24_Witness ==
    \E r \in RequestIds :
        /\ Requested(r)
        /\ decrypt(requestHandles(r)[1]) = u32Zero
        /\ decrypt(scoreDivisor(requestHandles(r)[6])) = toU32(1)

NamedErrors ==
    {"NotOwner", "NotProvider", "Paused", "CooldownActive", "InvalidBatch",
     "ReplayAttempt", "StateMismatch", "InvalidProof", "AlreadyProcessed",
     "InvalidParameter"}

\* the outcomes of all calls that can be made in the current state
CallOutcomes ==
    UNION { AdminErrors(a)
            \cup {openBatchError(a), closeBatchError(a), submitUserDataError(a)}
            \cup {requestAnalysisError(a, b) : b \in BatchIds}
            \cup {myCallbackError(a, r, ok) : r \in RequestIds, ok \in BOOLEAN}
          : a \in Addr }

(***************************************************************************)
(* C26 (as stated)  Named failures only: in every reachable state, every   *)
(* call of every entry point either goes through or fails with one of the  *)
(* ten named errors, for every cooldown the owner may set.                 *)
(***************************************************************************)
C26_NamedFailuresOnly == CallOutcomes \subseteq NamedErrors \cup {NoError}

(***************************************************************************)
(* C26 (as computed)  Every call goes through, fails with a named error,   *)
(* or fails with the arithmetic panic; the panic comes from submitUserData *)
(* and requestAnalysis only, exactly when the caller is a provider, the    *)
(* system is not paused and the caller's timestamp plus cooldownSeconds    *)
(* overflows.                                                              *)
(***************************************************************************)
C26_NamedOrPanic ==
    /\ CallOutcomes \subseteq NamedErrors \cup {NoError, "Panic"}
    /\ \A a \in Addr :
          /\ "Panic" \notin AdminErrors(a) \cup {openBatchError(a), closeBatchError(a)}
          /\ \A r \in RequestIds, ok \in BOOLEAN : myCallbackError(a, r, ok) # "Panic"
          /\ submitUserDataError(a) = "Panic"
                <=> (isProvider[a] /\ ~paused /\ Overflows(lastSubmissionTime[a]))
          /\ \A b \in BatchIds :
                requestAnalysisError(a, b) = "Panic"
                    <=> (isProvider[a] /\ ~paused /\ Overflows(lastDecryptionRequestTime[a]))

\* a provider whose next submission overflows the cooldown addition
C26_Witness ==
    \E a \in Addr :
        /\ isProvider[a] /\ ~paused /\ batchOpen
        /\ lastSubmissionTime[a] > 0
        /\ cooldownSeconds = MAX_UINT
        /\ submitUserDataError(a) = "Panic"

(***************************************************************************)
(* C27  Initial state: before any call has gone through, the owner is the  *)
(* deployer, the provider set is exactly {owner}, paused is false,         *)
(* cooldownSeconds is 60, currentBatchId is 1, no batch is open, and there *)
(* are no records, no processed batches and no decryption contexts.        *)
(***************************************************************************)
C27_InitialState ==
    txCount = 0 =>
        /\ owner = Deployer
        /\ {a \in Addr : isProvider[a]} = {owner}
        /\ paused = FALSE
        /\ cooldownSeconds = 60
        /\ currentBatchId = 1
        /\ batchOpen = FALSE
        /\ \A b \in BatchIds, a \in Addr : batchUserData[b][a] = EmptyRecord
        /\ \A b \in BatchIds : ~batchProcessed[b]
        /\ \A r \in RequestIds : decryptionContexts[r] = NoContext
        /\ \A a \in Addr : lastSubmissionTime[a] = 0 /\ lastDecryptionRequestTime[a] = 0

\* the constructed contract, some time after deployment and before any call
C27_Witness == txCount = 0 /\ now > DeployTime /\ owner = Deployer /\ isProvider[Deployer]

\* the eight fields of a stored record
RecordFields == DOMAIN EmptyRecord

(***************************************************************************)
(* C28 (as stated)  All-or-nothing records: in every reachable state the   *)
(* record stored for every (batch, provider) has either all eight fields   *)
(* uninitialized or all eight fields initialized, whichever handles the    *)
(* provider passed to submitUserData.                                      *)
(***************************************************************************)
C28_AllOrNothing ==
    \A b \in BatchIds, a \in Addr :
        \/ \A f \in RecordFields : ~isInitialized(batchUserData[b][a][f])
        \/ \A f \in RecordFields : isInitialized(batchUserData[b][a][f])

(***************************************************************************)
(* C28 (as computed)  Every stored record is the empty record or, field by *)
(* field, one of the argument lists a provider passed to submitUserData;   *)
(* the handles are stored without any test of their initialization.        *)
(***************************************************************************)
C28_StoredAsPassed ==
    \A b \in BatchIds, a \in Addr :
        batchUserData[b][a] \in RecordInputs \cup {EmptyRecord}

\* a stored record whose sentinel field is uninitialized while another is set
C28_Witness ==
    \E b \in BatchIds, a \in Addr :
        /\ ~isInitialized(batchUserData[b][a].dailyCalories)
        /\ isInitialized(batchUserData[b][a].proteinGrams)

(***************************************************************************)
(* C29  Context immutability: a decryption context exists exactly for the  *)
(* request ids that have been handed out; it is created by the             *)
(* requestAnalysis that obtains the id, with processed = false; from then  *)
(* on its batchId and stateHash never change and processed only goes from  *)
(* false to true, whatever requestAnalysis, submission, batch transition   *)
(* or callback follows.                                                    *)
(***************************************************************************)
C29_ContextImmutable ==
    /\ [](\A r \in RequestIds :
            /\ ~Requested(r) => decryptionContexts[r] = NoContext
            /\ Requested(r) => decryptionContexts[r].batchId \in BatchIds)
    /\ [][decryptionContexts' # decryptionContexts =>
            \A r \in RequestIds :
                LET ctx == decryptionContexts[r]
                    ctxNext == decryptionContexts'[r]
                IN  /\ Requested(r) =>
                          /\ ctxNext.batchId = ctx.batchId
                          /\ ctxNext.stateHash = ctx.stateHash
                          /\ ctx.processed => ctxNext.processed
                    /\ (~Requested(r) /\ ctxNext # ctx) =>
                          /\ r = nextRequestId
                          /\ nextRequestId' = nextRequestId + 1
                          /\ ~ctxNext.processed
                          /\ \E b \in BatchIds :
                                /\ requestAnalysis(requestedBy'[r], b)
                                /\ ctxNext.batchId = b
                                /\ ctxNext.stateHash =
                                       hashCiphertexts(ciphertexts(
                                           computeAnalysis(b, requestedBy'[r])))]_vars

\* a context that kept its stateHash although the requester's record was
\* overwritten afterwards, next to a second context created later
C29_Witness ==
    \E r, q \in RequestIds :
        /\ r # q /\ Requested(r) /\ Requested(q)
        /\ currentHash(requestedBy[r], r) # decryptionContexts[r].stateHash

\* the requests that went through for batch b on behalf of provider p
requestsOf(b, p) ==
    {r \in RequestIds :
        Requested(r) /\ decryptionContexts[r].batchId = b /\ requestedBy[r] = p}

(***************************************************************************)
(* C30 (as stated)  One analysis request per provider per batch: for every *)
(* batch b and provider p at most one requestAnalysis(b) made by p ever    *)
(* goes through, so at most one decryption context exists for (b, p).      *)
(***************************************************************************)
C30_OneRequestPerProviderPerBatch ==
    \A b \in BatchIds, p \in Addr : Cardinality(requestsOf(b, p)) <= 1

(***************************************************************************)
(* C30 (as computed)  A requestAnalysis(b) by p goes through whenever p is *)
(* a provider, the system is not paused, p's decryption cooldown has       *)
(* elapsed, batch b is not processed and p's record in b has its           *)
(* dailyCalories set; requests p made before for b do not count.  Once b   *)
(* is processed no further request for b goes through.                     *)
(***************************************************************************)
C30_RequestsUntilProcessed ==
    /\ [](\A b \in BatchIds, p \in Addr :
            requestAnalysisError(p, b) = NoError
                <=> /\ isProvider[p] /\ ~paused
                    /\ ~Overflows(lastDecryptionRequestTime[p])
                    /\ now >= lastDecryptionRequestTime[p] + cooldownSeconds
                    /\ ~batchProcessed[b]
                    /\ isInitialized(batchUserData[b][p].dailyCalories))
    /\ [][nextRequestId' # nextRequestId =>
            ~batchProcessed[decryptionContexts'[nextRequestId].batchId]]_vars

\* two contexts of the same provider for the same batch, both still pending
C30_Witness ==
    \E b \in BatchIds, p \in Addr :
        /\ Cardinality(requestsOf(b, p)) = 2
        /\ \A r \in requestsOf(b, p) : Pending(r)

\* batch b is the one currently open for submissions
openForSubmissions(b) == batchOpen /\ b = currentBatchId

(***************************************************************************)
(* C31 (as stated)  Eligibility after the window: requestAnalysis(b) goes  *)
(* through only in states where b is not the currently open batch          *)
(* (batchOpen is false or b < currentBatchId); a request against the batch *)
(* still open for submissions is rejected.                                 *)
(***************************************************************************)
C31_RequestOnlyAfterClose ==
    \A a \in Addr, b \in BatchIds :
        openForSubmissions(b) => requestAnalysisError(a, b) # NoError

\* a pending request on the batch that is still open for submissions
C31_Witness ==
    \E r \in RequestIds :
        /\ Pending(r)
        /\ openForSubmissions(decryptionContexts[r].batchId)

zeroEquivalent(d) ==
    /\ operand(d.dailyCalories) = asEuint32(0)
    /\ operand(d.activityLevel) = asEuint32(0)
    /\ operand(d.healthGoal) = asEuint32(0)

\* address a holds no record in batch b
holdsNoRecord(b, a) == batchUserData[b][a] = EmptyRecord

C36_EventuallyFinalized ==
    \A r \in RequestIds :
        Pending(r) ~> (Finalized(r) /\ batchProcessed[decryptionContexts[r].batchId])

\* a request finalized while the system is paused and its requester has
\* been removed from the providers
C36_Witness ==
    \E r \in RequestIds :
        /\ Finalized(r)
        /\ batchProcessed[decryptionContexts[r].batchId]
        /\ paused
        /\ ~isProvider[requestedBy[r]]

\* the cooldown started at time last has not elapsed (the sum being representable)
cooldownActive(last) == ~Overflows(last) /\ now < last + cooldownSeconds

openedBatches == 2..currentBatchId

(***************************************************************************)
(* C38  Sentinel soundness: in every reachable state records exist only    *)
(* under batch ids b with 2 <= b <= currentBatchId, and every stored       *)
(* decryption context has its batchId in that range, never 0.  Hence       *)
(* requestAnalysis for batch 0, batch 1 or an id above currentBatchId      *)
(* never goes through, failing with InvalidBatch when the caller passes    *)
(* the modifiers, and the batchId == 0 test of myCallback never rejects a  *)
(* context that was created.                                               *)
(***************************************************************************)
C38_SentinelSoundness ==
    [](/\ \A b \in BatchIds, a \in Addr :
             batchUserData[b][a] # EmptyRecord => b \in openedBatches
       /\ \A b \in BatchIds : batchProcessed[b] => b \in openedBatches
       /\ \A r \in RequestIds :
             /\ Requested(r) => decryptionContexts[r].batchId \in openedBatches
             /\ ~Requested(r) => decryptionContexts[r].batchId = 0
             /\ Requested(r) =>
                   \A a \in Addr, ok \in BOOLEAN : myCallbackError(a, r, ok) # "InvalidBatch"
       /\ \A b \in BatchIds \ openedBatches, a \in Addr :
             /\ requestAnalysisError(a, b) # NoError
             /\ (isProvider[a] /\ ~paused /\ checkDecryptionCooldown(a) = NoError)
                   => requestAnalysisError(a, b) = "InvalidBatch")

\* records and a context exist, and a provider that passes the modifiers is
\* refused batch 0, batch 1 and the batch after the current one
C38_Witness ==
    \E a \in Addr, r \in RequestIds :
        /\ Requested(r)
        /\ decryptionContexts[r].batchId = 2
        /\ currentBatchId = 3
        /\ batchUserData[3][a] # EmptyRecord
        /\ isProvider[a] /\ ~paused /\ checkDecryptionCooldown(a) = NoError
        /\ requestAnalysisError(a, 0) = "InvalidBatch"
        /\ requestAnalysisError(a, 1) = "InvalidBatch"

(***************************************************************************)
(* C39  Several requests may be pending for the same batch at once, and    *)
(* the outcome of myCallback does not depend on batchProcessed: a pending  *)
(* request whose state check and proof check pass is finalized also when   *)
(* its batch has already been marked processed by another request's        *)
(* callback.  batchProcessed[b] blocks new requestAnalysis(b) calls only.  *)
(***************************************************************************)
C39_CallbackIgnoresBatchProcessed ==
    /\ [](\A r \in RequestIds, a \in Addr :
            ( /\ Pending(r)
              /\ currentHash(a, r) = decryptionContexts[r].stateHash )
                => /\ myCallbackError(a, r, TRUE) = NoError
                   /\ myCallbackError(a, r, FALSE) = "InvalidProof")
    /\ [](\A b \in BatchIds, a \in Addr :
            batchProcessed[b] => requestAnalysisError(a, b) # NoError)
    /\ [][completed' # completed =>
            \A r \in RequestIds :
                ( /\ completed'[r] # completed[r]
                  /\ batchProcessed[decryptionContexts[r].batchId] )
                    => /\ Pending(r) /\ Finalized(r)'
                       /\ \E q \in RequestIds \ {r} :
                             /\ Finalized(q)
                             /\ decryptionContexts[q].batchId
                                    = decryptionContexts[r].batchId]_vars

\* two requests for one batch, both finalized: the second callback went
\* through on a batch already marked processed by the first
C39_Witness ==
    \E r, q \in RequestIds :
        /\ r # q
        /\ Finalized(r) /\ Finalized(q)
        /\ decryptionContexts[r].batchId = decryptionContexts[q].batchId
        /\ completed[r] # <<>> /\ completed[q] # <<>>

====
